---- MODULE Spec2Model ----
(***************************************************************************)
(* Model of the AI service of konsiliumB: the provider gateway             *)
(* (GeminiService._call_gemini), the six GeminiService operations, the    *)
(* six request handlers of apps/ai_service/views.py and the                *)
(* AnalysisViewSet, the CaseLibraryViewSet and dashboard_stats_view of     *)
(* apps/analyses/views.py.                                                 *)
(*                                                                         *)
(* Texts (provider responses, exception messages) are sequences of units.  *)
(* A unit is one character, except that a JSON string literal and the      *)
(* JSON words null/true/false are one unit each: the code never looks      *)
(* inside them (strip, startswith, endswith and the slices only touch      *)
(* white space and the fence characters).                                  *)
(***************************************************************************)
EXTENDS Integers, Sequences, FiniteSets, TLC

VARIABLES gwSchema, gwOutcome, gwParts, gwResult,
          pc, op, request, prompt, calls, response,
          db, users, lastReq,
          cases, workers, dash, searched

vars == <<gwSchema, gwOutcome, gwParts, gwResult,
          pc, op, request, prompt, calls, response,
          db, users, lastReq,
          cases, workers, dash, searched>>

\* the table of the Analysis records, the statistics of the users and the
\* last request to the AnalysisViewSet with its outcome
crudVars == <<db, users, lastReq>>

\* the table of the CaseLibrary records, the requests that run concurrently,
\* the dashboard statistics (cached and returned) and the last search
\* (its q parameter, whether it evaluated its queryset)
libVars == <<cases, workers, dash, searched>>

gwVars == <<gwSchema, gwOutcome, gwParts, gwResult>>

viewVars == <<pc, op, request, prompt, calls, response>>

(***************************************************************************)
(* Bounds of the model                                                     *)
(***************************************************************************)
\* number of fragments an exception message is built from
MaxFrags == 2

\* number of units of the body of a provider text in the gateway model
MaxBody == 3

\* length of the longest questions list of a provider answer
MaxQuestions == 12

\* length of the longest recommendations list of a provider answer
MaxRecs == 7

\* length of the longest debate history of a final-report call
MaxTurns == 12

\* length of the longest analyses list of a cme-topics call
MaxAnalyses == 12

\* number of requests to the AnalysisViewSet in a run
MaxRequests == 4

\* number of diagnoses of the final report of an analysis
MaxDx == 3

\* number of requests that run concurrently
MaxWorkers == 2

\* number of requests to the CaseLibraryViewSet in a run
MaxCaseRequests == 3

(***************************************************************************)
(* Python str operations                                                   *)
(***************************************************************************)
UpperLower ==
  << <<"A","a">>, <<"B","b">>, <<"C","c">>, <<"D","d">>, <<"E","e">>,
     <<"F","f">>, <<"G","g">>, <<"H","h">>, <<"I","i">>, <<"J","j">>,
     <<"K","k">>, <<"L","l">>, <<"M","m">>, <<"N","n">>, <<"O","o">>,
     <<"P","p">>, <<"Q","q">>, <<"R","r">>, <<"S","s">>, <<"T","t">>,
     <<"U","u">>, <<"V","v">>, <<"W","w">>, <<"X","x">>, <<"Y","y">>,
     <<"Z","z">> >>

LowerChar(c) ==
  IF \E i \in DOMAIN UpperLower : UpperLower[i][1] = c
  THEN UpperLower[CHOOSE i \in DOMAIN UpperLower : UpperLower[i][1] = c][2]
  ELSE c

\* str.lower()
Lower(s) == [i \in 1..Len(s) |-> LowerChar(s[i])]

\* sub in s
Contains(s, sub) ==
  \E i \in 0..(Len(s) - Len(sub)) : SubSeq(s, i + 1, i + Len(sub)) = sub

\* s.startswith(p)
StartsWith(s, p) == Len(s) >= Len(p) /\ SubSeq(s, 1, Len(p)) = p

\* s.endswith(p)
EndsWith(s, p) ==
  Len(s) >= Len(p) /\ SubSeq(s, Len(s) - Len(p) + 1, Len(s)) = p

IsSpace(c) == c \in {" ", "\n", "\t", "\r"}

\* s.strip()
Strip(s) ==
  IF \A i \in 1..Len(s) : IsSpace(s[i])
  THEN << >>
  ELSE LET first == CHOOSE i \in 1..Len(s) :
                      ~IsSpace(s[i]) /\ \A j \in 1..(i - 1) : IsSpace(s[j])
           last  == CHOOSE i \in 1..Len(s) :
                      ~IsSpace(s[i]) /\ \A j \in (i + 1)..Len(s) : IsSpace(s[j])
       IN  SubSeq(s, first, last)

\* s[k:]
SliceFrom(s, k) == SubSeq(s, k + 1, Len(s))

\* s[:-k]
SliceDropLast(s, k) == SubSeq(s, 1, Len(s) - k)

RECURSIVE Flatten(_)
\* "".join(parts)
Flatten(parts) ==
  IF parts = << >> THEN << >> ELSE Head(parts) \o Flatten(Tail(parts))

(***************************************************************************)
(* JSON values and json.loads                                              *)
(*                                                                         *)
(* A value is a record of one shape: t is its type, n the number or the    *)
(* boolean, a the string, items the elements of an array or the values of  *)
(* an object, keys the keys of an object (in insertion order).             *)
(***************************************************************************)
JNull == [t |-> "null", n |-> 0, a |-> "", items |-> << >>, keys |-> << >>]

JBool(b) ==
  [t |-> "bool", n |-> IF b THEN 1 ELSE 0, a |-> "", items |-> << >>,
   keys |-> << >>]

JNum(k) == [t |-> "num", n |-> k, a |-> "", items |-> << >>, keys |-> << >>]

JStr(s) == [t |-> "str", n |-> 0, a |-> s, items |-> << >>, keys |-> << >>]

JArr(xs) == [t |-> "arr", n |-> 0, a |-> "", items |-> xs, keys |-> << >>]

JObj(ks, xs) == [t |-> "obj", n |-> 0, a |-> "", items |-> xs, keys |-> ks]

\* dict: d[k] = v  (an existing key keeps its place and takes the new value)
ObjPut(o, k, v) ==
  IF \E i \in DOMAIN o.keys : o.keys[i] = k
  THEN LET i == CHOOSE i \in DOMAIN o.keys : o.keys[i] = k
       IN  JObj(o.keys, [o.items EXCEPT ![i] = v])
  ELSE JObj(Append(o.keys, k), Append(o.items, v))

\* k in d
HasKey(o, k) == o.t = "obj" /\ \E i \in DOMAIN o.keys : o.keys[i] = k

\* d[k]
ObjGet(o, k) == o.items[CHOOSE i \in DOMAIN o.keys : o.keys[i] = k]

\* the strings that occur in the modelled JSON texts
Specialties ==
  << "Cardiology", "Neurology", "Radiology", "Oncology", "Endocrinology",
     "Gastroenterology", "Pulmonology", "Nephrology", "Rheumatology",
     "Infectious Disease", "Hematology", "Geriatrics", "Emergency Medicine",
     "Internal Medicine", "Pediatrics", "Dermatology", "Orthopedics",
     "Urology", "Gynecology", "Psychiatry" >>

QuestionTexts ==
  { "q1", "q2", "q3", "q4", "q5", "q6", "q7", "q8", "q9", "q10", "q11",
    "q12", "q13", "q14" }

StrTable ==
  { "q", "questions", "recommendations", "specialty", "reason", "model",
    "diagnoses", "interactions", "topics", "because", "cardiology",
    "Astrology", "Gemini", "Claude", "GPT", "Llama", "Grok", "Mistral",
    "consensusDiagnosis", "name" }
  \cup QuestionTexts
  \cup { Specialties[i] : i \in DOMAIN Specialties }

\* the unit of the string literal "s"
Lit(s) == "\"" \o s \o "\""

\* the units that are string literals
LitUnits == { Lit(s) : s \in StrTable }

IsLit(u) == u \in LitUnits

\* the string a string literal stands for
UnlitMap == [u \in LitUnits |-> CHOOSE s \in StrTable : u = Lit(s)]

Unlit(u) == UnlitMap[u]

Digits == {"0", "1", "2", "3", "4", "5", "6", "7", "8", "9"}

DigitVal(c) ==
  CASE c = "0" -> 0 [] c = "1" -> 1 [] c = "2" -> 2 [] c = "3" -> 3
    [] c = "4" -> 4 [] c = "5" -> 5 [] c = "6" -> 6 [] c = "7" -> 7
    [] c = "8" -> 8 [] c = "9" -> 9

IsJsonWs(c) == c \in {" ", "\n", "\t", "\r"}

\* the first position at or after i that holds no white space
SkipWs(s, i) ==
  IF \E j \in i..Len(s) : ~IsJsonWs(s[j])
  THEN CHOOSE j \in i..Len(s) :
         ~IsJsonWs(s[j]) /\ \A k \in i..(j - 1) : IsJsonWs(s[k])
  ELSE Len(s) + 1

ParseFail(i) == [ok |-> FALSE, val |-> JNull, next |-> i]

ParseOk(v, i) == [ok |-> TRUE, val |-> v, next |-> i]

\* the last position of the run of digits that starts at i
DigitsEnd(s, i) ==
  CHOOSE j \in i..Len(s) :
    /\ \A k \in i..j : s[k] \in Digits
    /\ (j = Len(s) \/ s[j + 1] \notin Digits)

RECURSIVE DigitsValue(_, _, _)
DigitsValue(s, i, j) ==
  IF j < i THEN 0 ELSE 10 * DigitsValue(s, i, j - 1) + DigitVal(s[j])

\* a JSON integer: no leading zero
ParseNumber(s, i) ==
  LET j == DigitsEnd(s, i)
  IN  IF s[i] = "0" /\ j > i
      THEN ParseFail(i)
      ELSE ParseOk(JNum(DigitsValue(s, i, j)), j + 1)

RECURSIVE ParseValue(_, _)
RECURSIVE ParseArrayRest(_, _, _)
RECURSIVE ParseObjectRest(_, _, _)

\* the value that starts at position i (white space already skipped)
ParseValue(s, i) ==
  IF i > Len(s) THEN ParseFail(i)
  ELSE LET c == s[i] IN
    CASE c = "null"  -> ParseOk(JNull, i + 1)
      [] c = "true"  -> ParseOk(JBool(TRUE), i + 1)
      [] c = "false" -> ParseOk(JBool(FALSE), i + 1)
      [] c \in Digits -> ParseNumber(s, i)
      [] c = "[" ->
           LET j == SkipWs(s, i + 1)
           IN  IF j <= Len(s) /\ s[j] = "]"
               THEN ParseOk(JArr(<< >>), j + 1)
               ELSE ParseArrayRest(s, j, << >>)
      [] c = "{" ->
           LET j == SkipWs(s, i + 1)
           IN  IF j <= Len(s) /\ s[j] = "}"
               THEN ParseOk(JObj(<< >>, << >>), j + 1)
               ELSE ParseObjectRest(s, j, JObj(<< >>, << >>))
      [] OTHER -> IF IsLit(c) THEN ParseOk(JStr(Unlit(c)), i + 1)
                  ELSE ParseFail(i)

\* the elements of an array from position i on, acc holding those before
ParseArrayRest(s, i, acc) ==
  LET r == ParseValue(s, i)
  IN  IF ~r.ok THEN ParseFail(i)
      ELSE LET j == SkipWs(s, r.next)
           IN  IF j > Len(s) THEN ParseFail(j)
               ELSE IF s[j] = "]"
                    THEN ParseOk(JArr(Append(acc, r.val)), j + 1)
               ELSE IF s[j] = ","
                    THEN ParseArrayRest(s, SkipWs(s, j + 1),
                                        Append(acc, r.val))
               ELSE ParseFail(j)

\* the members of an object from position i on, o holding those before
ParseObjectRest(s, i, o) ==
  IF i > Len(s) \/ ~IsLit(s[i]) THEN ParseFail(i)
  ELSE LET c == SkipWs(s, i + 1)
       IN  IF c > Len(s) \/ s[c] # ":" THEN ParseFail(c)
           ELSE LET r == ParseValue(s, SkipWs(s, c + 1))
                IN  IF ~r.ok THEN ParseFail(c)
                    ELSE LET j  == SkipWs(s, r.next)
                             o2 == ObjPut(o, Unlit(s[i]), r.val)
                         IN  IF j > Len(s) THEN ParseFail(j)
                             ELSE IF s[j] = "}" THEN ParseOk(o2, j + 1)
                             ELSE IF s[j] = ","
                                  THEN ParseObjectRest(s, SkipWs(s, j + 1),
                                                       o2)
                             ELSE ParseFail(j)

\* json.loads(s): ok is FALSE where it raises json.JSONDecodeError
JsonLoads(s) ==
  LET r == ParseValue(s, SkipWs(s, 1))
  IN  IF r.ok /\ SkipWs(s, r.next) > Len(s)
      THEN [ok |-> TRUE, val |-> r.val]
      ELSE [ok |-> FALSE, val |-> JNull]

(***************************************************************************)
(* The gateway: GeminiService._call_gemini                                 *)
(***************************************************************************)
NoResult ==
  [kind |-> "none", exc |-> "", msg |-> "", val |-> JNull, text |-> << >>]

\* return value (the parsed JSON value when a schema was given)
Return(v) ==
  [kind |-> "return", exc |-> "", msg |-> "", val |-> v, text |-> << >>]

\* return text (no schema)
ReturnText(t) ==
  [kind |-> "return", exc |-> "", msg |-> "", val |-> JNull, text |-> t]

\* raise exc(msg)
Raise(exc, msg) ==
  [kind |-> "raise", exc |-> exc, msg |-> msg, val |-> JNull, text |-> << >>]

RateLimitExceeded ==
  Raise("Exception", "AI service rate limit exceeded. Please try again later.")

InvalidRequest ==
  Raise("ValueError", "Invalid request format. Please check your input.")

Unavailable ==
  Raise("Exception",
        "AI service temporarily unavailable. Please try again later.")

KwQuota == <<"q", "u", "o", "t", "a">>

KwRateLimit == <<"r", "a", "t", "e", " ", "l", "i", "m", "i", "t">>

KwInvalid == <<"i", "n", "v", "a", "l", "i", "d">>

KwMalformed == <<"m", "a", "l", "f", "o", "r", "m", "e", "d">>

\* ClassifyError without lower() in the second test
ClassifyError_CaseSensitive(error_msg) ==
  IF Contains(Lower(error_msg), KwQuota)
     \/ Contains(Lower(error_msg), KwRateLimit)
  THEN RateLimitExceeded
  ELSE IF Contains(error_msg, KwInvalid) \/ Contains(error_msg, KwMalformed)
       THEN InvalidRequest
       ELSE Unavailable

\* ClassifyError with the two tests in the other order
ClassifyError_InvalidFirst(error_msg) ==
  IF Contains(Lower(error_msg), KwInvalid)
     \/ Contains(Lower(error_msg), KwMalformed)
  THEN InvalidRequest
  ELSE IF Contains(Lower(error_msg), KwQuota)
          \/ Contains(Lower(error_msg), KwRateLimit)
       THEN RateLimitExceeded
       ELSE Unavailable

\* ClassifyError with a bare raise in the else branch
ClassifyError_Reraise(error_msg) ==
  IF Contains(Lower(error_msg), KwQuota)
     \/ Contains(Lower(error_msg), KwRateLimit)
  THEN RateLimitExceeded
  ELSE IF Contains(Lower(error_msg), KwInvalid)
          \/ Contains(Lower(error_msg), KwMalformed)
       THEN InvalidRequest
       ELSE Raise("ProviderError", "the provider's own message")

\* ClassifyError whose second test only looks for malformed
ClassifyError_MalformedOnly(error_msg) ==
  IF Contains(Lower(error_msg), KwQuota)
     \/ Contains(Lower(error_msg), KwRateLimit)
  THEN RateLimitExceeded
  ELSE IF Contains(Lower(error_msg), KwMalformed)
       THEN InvalidRequest
       ELSE Unavailable

\* the except branch: the failure is classified by its message
ClassifyError(error_msg) ==
  IF Contains(Lower(error_msg), KwQuota)
     \/ Contains(Lower(error_msg), KwRateLimit)
  THEN RateLimitExceeded
  ELSE IF Contains(Lower(error_msg), KwInvalid)
          \/ Contains(Lower(error_msg), KwMalformed)
       THEN InvalidRequest
       ELSE Unavailable

\* a parse failure message without the word the except branch looks for
JsonErrorMsg_Bad ==
  <<"R", "e", "c", "e", "i", "v", "e", "d", " ", "b", "a", "d", " ", "J", "S", "O", "N", " ", "f", "r", "o", "m", " ", "A", "P", "I">>

\* str(ValueError("Received invalid JSON from API"))
JsonErrorMsg ==
  <<"R", "e", "c", "e", "i", "v", "e", "d", " ", "i", "n", "v", "a", "l", "i", "d", " ", "J", "S", "O", "N", " ", "f", "r", "o", "m", " ", "A", "P", "I">>

\* the grave accent character (U+0060), which a TLA+ string cannot hold
Backtick == "GRAVE"

FenceOpen == <<Backtick, Backtick, Backtick, "j", "s", "o", "n">>

FenceClose == <<Backtick, Backtick, Backtick>>

\* CleanText with cleaned_text[6:]
CleanText_Slice6(text) ==
  LET c1 == Strip(text)
      c2 == IF StartsWith(c1, FenceOpen) THEN SliceFrom(c1, 6) ELSE c1
      c3 == IF EndsWith(c2, FenceClose) THEN SliceDropLast(c2, 3) ELSE c2
  IN  Strip(c3)

\* the text that is handed to json.loads
CleanText(text) ==
  LET c1 == Strip(text)
      c2 == IF StartsWith(c1, FenceOpen) THEN SliceFrom(c1, 7) ELSE c1
      c3 == IF EndsWith(c2, FenceClose) THEN SliceDropLast(c2, 3) ELSE c2
  IN  Strip(c3)

\* The provider either raises an exception with message o.chars or answers
\* the text o.chars.  The ValueError of a JSON parse failure is raised
\* inside the try block, so the except branch classifies it as well.
CallGemini(response_schema, o) ==
  IF o.kind = "raise" THEN ClassifyError(o.chars)
  ELSE IF response_schema
       THEN LET r == JsonLoads(CleanText(o.chars))
            IN  IF r.ok THEN Return(r.val) ELSE ClassifyError(JsonErrorMsg)
       ELSE ReturnText(o.chars)

ProviderRaises(msg) == [kind |-> "raise", chars |-> msg]

ProviderAnswers(text) == [kind |-> "text", chars |-> text]

NoOutcome == [kind |-> "none", chars |-> << >>]

(***************************************************************************)
(* Inputs of the gateway model                                             *)
(***************************************************************************)
Fragments ==
  { <<"q", "u", "o", "t", "a">>, <<"Q", "u", "o", "t", "a">>, <<"Q", "U", "O", "T", "A">>,
    <<"r", "a", "t", "e">>, <<" ">>, <<"l", "i", "m", "i", "t">>,
    <<"r", "a", "t", "e", " ", "l", "i", "m", "i", "t">>, <<"R", "a", "t", "e", " ", "L", "i", "m", "i", "t">>,
    <<"i", "n", "v", "a", "l", "i", "d">>, <<"I", "n", "v", "a", "l", "i", "d">>, <<"I", "N", "V", "A", "L", "I", "D">>,
    <<"m", "a", "l", "f", "o", "r", "m", "e", "d">>, <<"M", "a", "l", "f", "o", "r", "m", "e", "d">>,
    <<"t", "i", "m", "e", "o", "u", "t">>, <<"q", "u", "o", "t">>, <<"v", "a", "l", "i", "d">> }

\* the exception messages: up to MaxFrags fragments, concatenated
Messages ==
  { Flatten(fs) : fs \in UNION { [1..k -> Fragments] : k \in 0..MaxFrags } }

BodyUnits == {"[", "]", "1", "0", ",", " ", Backtick}

Bodies == UNION { [1..k -> BodyUnits] : k \in 0..MaxBody }

Pads == { << >>, <<"\n">>, <<" ">> }

\* the white space before the opening fence, after it, before the closing
\* fence and after it
FencePads ==
  { << << >>, << >>, << >>, << >> >>,
    << << >>, <<"\n">>, <<"\n">>, << >> >>,
    << <<"\n">>, << >>, << >>, <<"\n">> >>,
    << <<"\n">>, <<"\n">>, <<"\n">>, <<"\n">> >>,
    << <<" ">>, <<"\n">>, <<" ">>, <<"\n">> >>,
    << << >>, <<" ">>, <<"\n">>, <<" ">> >> }

NoParts == [pre |-> << >>, body |-> << >>, post |-> << >>]

\* body p wrapped in an opening and a closing fence, white space w around
\* them
Fenced(w, p) ==
  [pre |-> w[1] \o FenceOpen \o w[2], body |-> p,
   post |-> w[3] \o FenceClose \o w[4]]

\* what stands before and after a body that is not fenced: nothing, white
\* space, or half a fence
OtherPads ==
  { << << >>, << >> >>, << <<"\n">>, <<" ">> >>,
    << FenceOpen, << >> >>, << << >>, FenceClose >> }

\* body p alone, or with half a fence
Unfenced(w, p) == [pre |-> w[1], body |-> p, post |-> w[2]]

PartsText(parts) == parts.pre \o parts.body \o parts.post

Absent == "<absent>"

NoRequest ==
  [language |-> Absent, patient_data |-> Absent, lists |-> Absent,
   items |-> << >>]

UserIds == {"u1", "u2"}

\* the users before any analysis is created: total_analyses has default 0
NoStats == [u \in UserIds |-> [total_analyses |-> 0]]

\* no request to the AnalysisViewSet was handled (yet)
NoLast ==
  [n |-> 0, user |-> "none", action |-> "none", status |-> 0,
   returned |-> << >>, modified |-> {}]

\* no statistics: nothing cached for a user, nothing returned
NoStatsOut == [total |-> 0, recent |-> << >>, common |-> << >>]

NoDash ==
  [cache |-> [u \in UserIds |-> [set |-> FALSE, stats |-> NoStatsOut]],
   user |-> "none", status |-> 0, out |-> NoStatsOut]

\* no search request was handled (yet): its q parameter and whether the
\* filtered queryset was evaluated
NoSearch == [q |-> [k |-> "absent", s |-> << >>, n |-> 0], ran |-> FALSE]

\* no prompt is built (yet)
NoPrompt == [target_lang |-> "", summary |-> << >>, diagnoses_str |-> << >>]

NoResponse == [status |-> 0, error |-> "", fields |-> {}, body |-> JNull]

\* no request is handled in the gateway model
InitView ==
  /\ pc = "idle"
  /\ op = "none"
  /\ request = NoRequest
  /\ prompt = NoPrompt
  /\ calls = 0
  /\ response = NoResponse
  /\ db = << >>
  /\ users = NoStats
  /\ lastReq = NoLast
  /\ cases = << >>
  /\ workers = << >>
  /\ dash = NoDash
  /\ searched = NoSearch

\* the provider's behaviour for one call of the gateway: an exception, a
\* fenced text, or another text
InitGateway ==
  /\ \/ \E sc \in BOOLEAN, m \in Messages :
          /\ gwSchema = sc
          /\ gwOutcome = ProviderRaises(m)
          /\ gwParts = NoParts
     \/ \E w \in FencePads, p \in Bodies :
          /\ gwSchema = TRUE
          /\ gwOutcome = ProviderAnswers(PartsText(Fenced(w, p)))
          /\ gwParts = Fenced(w, p)
     \/ \E sc \in BOOLEAN, w \in OtherPads, p \in Bodies :
          /\ gwSchema = sc
          /\ gwOutcome = ProviderAnswers(PartsText(Unfenced(w, p)))
          /\ gwParts = Unfenced(w, p)
  /\ gwResult = NoResult
  /\ InitView

\* _call_gemini when the provider call raises an exception
CallFails ==
  /\ gwResult.kind = "none"
  /\ gwOutcome.kind = "raise"
  /\ gwResult' = CallGemini(gwSchema, gwOutcome)
  /\ UNCHANGED <<gwSchema, gwOutcome, gwParts>>
  /\ UNCHANGED viewVars
  /\ UNCHANGED <<crudVars, libVars>>

\* _call_gemini when the provider answers a text
CallAnswers ==
  /\ gwResult.kind = "none"
  /\ gwOutcome.kind = "text"
  /\ gwResult' = CallGemini(gwSchema, gwOutcome)
  /\ UNCHANGED <<gwSchema, gwOutcome, gwParts>>
  /\ UNCHANGED viewVars
  /\ UNCHANGED <<crudVars, libVars>>

NextGateway == CallFails \/ CallAnswers

(***************************************************************************)
(* The operations of GeminiService after the gateway call                  *)
(***************************************************************************)
Min(a, b) == IF a < b THEN a ELSE b

\* result.get(key): None when the key is absent
GetOrEmptyList_NoneDefault(result, key) ==
  IF result.t # "obj"
  THEN Raise("AttributeError", "object has no attribute 'get'")
  ELSE IF HasKey(result, key) THEN Return(ObjGet(result, key))
       ELSE Return(JNull)

\* result.get(key, [])  (a value that is no dict has no attribute get)
GetOrEmptyList(result, key) ==
  IF result.t # "obj"
  THEN Raise("AttributeError", "object has no attribute 'get'")
  ELSE IF HasKey(result, key) THEN Return(ObjGet(result, key))
       ELSE Return(JArr(<< >>))

\* generate_clarifying_questions
GenerateClarifyingQuestions(r) ==
  IF r.kind = "raise" THEN r ELSE GetOrEmptyList(r.val, "questions")

\* generate_initial_diagnoses
GenerateInitialDiagnoses(r) ==
  IF r.kind = "raise" THEN r ELSE GetOrEmptyList(r.val, "diagnoses")

\* generate_final_report
GenerateFinalReport(r) == r

\* check_drug_interactions
CheckDrugInteractions(r) ==
  IF r.kind = "raise" THEN r ELSE GetOrEmptyList(r.val, "interactions")

\* suggest_cme_topics
SuggestCmeTopics(r) ==
  IF r.kind = "raise" THEN r ELSE GetOrEmptyList(r.val, "topics")

\* specialty_to_model, in the order of Specialties
SpecialtyModels ==
  << "Gemini", "Claude", "GPT", "Llama", "Grok",
     "Gemini", "GPT", "Gemini", "Claude",
     "Llama", "Llama", "Gemini", "GPT",
     "Gemini", "Claude", "GPT", "GPT",
     "Gemini", "Gemini", "Claude" >>

\* specialty_to_model.get(specialty_name, 'Gemini')
SpecialtyToModel(name) ==
  IF name.t = "str" /\ \E i \in DOMAIN Specialties : Specialties[i] = name.a
  THEN SpecialtyModels[CHOOSE i \in DOMAIN Specialties :
                         Specialties[i] = name.a]
  ELSE "Gemini"

\* bool(v)
Truthy(v) ==
  CASE v.t = "null" -> FALSE
    [] v.t = "bool" -> v.n = 1
    [] v.t = "num"  -> v.n # 0
    [] v.t = "str"  -> v.a # ""
    [] v.t = "arr"  -> v.items # << >>
    [] v.t = "obj"  -> v.keys # << >>

\* rec.get('specialty', '')
SpecialtyName(rec) ==
  IF HasKey(rec, "specialty") THEN ObjGet(rec, "specialty") ELSE JStr("")

\* the exception one pass of the loop body raises on rec, "" when none:
\* rec.get needs a dict, the table lookup a hashable key
AnnotateError(rec) ==
  IF rec.t # "obj" THEN "AttributeError"
  ELSE IF SpecialtyName(rec).t \in {"arr", "obj"} THEN "TypeError"
       ELSE ""

\* rec.setdefault('model', ...): a model the provider supplied is kept
Annotate_SetDefault(rec) ==
  IF HasKey(rec, "model") THEN rec
  ELSE ObjPut(rec, "model", JStr(SpecialtyToModel(SpecialtyName(rec))))

\* rec['model'] = specialty_to_model.get(specialty_name, 'Gemini')
Annotate(rec) == ObjPut(rec, "model", JStr(SpecialtyToModel(SpecialtyName(rec))))

\* a loop over result['recommendations'][:6], the schema's maxItems
LoopEntries_MaxItems(recs) == SubSeq(recs, 1, Min(6, Len(recs)))

\* the entries the loop of recommend_specialists goes through
LoopEntries(recs) == recs

\* recommend_specialists, after the gateway returned result
AnnotateRecommendations(result) ==
  IF result.t # "obj"
  THEN Raise("AttributeError", "object has no attribute 'get'")
  ELSE IF ~HasKey(result, "recommendations")
          \/ ~Truthy(ObjGet(result, "recommendations"))
       THEN Return(result)
       ELSE LET recs == ObjGet(result, "recommendations")
            IN  CASE recs.t \in {"num", "bool"} ->
                       Raise("TypeError", "object is not iterable")
                  [] recs.t \in {"str", "obj"} ->
                       \* iterating yields str objects
                       Raise("AttributeError", "object has no attribute 'get'")
                  [] recs.t = "arr" ->
                       LET es == LoopEntries(recs.items)
                       IN  IF \E i \in DOMAIN es : AnnotateError(es[i]) # ""
                           THEN LET i == CHOOSE i \in DOMAIN es :
                                           /\ AnnotateError(es[i]) # ""
                                           /\ \A j \in 1..(i - 1) :
                                                AnnotateError(es[j]) = ""
                                IN  Raise(AnnotateError(es[i]), "")
                           ELSE Return(ObjPut(result, "recommendations",
                                  JArr([i \in DOMAIN es |-> Annotate(es[i])])))

\* recommend_specialists
RecommendSpecialists(r) ==
  IF r.kind = "raise" THEN r ELSE AnnotateRecommendations(r.val)

(***************************************************************************)
(* The request handlers: serializers and views                             *)
(***************************************************************************)
Ops ==
  { "clarifying_questions", "recommend_specialists", "initial_diagnoses",
    "final_report", "drug_interactions", "cme_topics" }

\* the operations whose serializer has a patient_data field
PatientOps ==
  { "clarifying_questions", "recommend_specialists", "initial_diagnoses",
    "final_report" }

\* the serializers with validate_language and max_length = 10
LanguageCheckedOps ==
  { "clarifying_questions", "recommend_specialists", "initial_diagnoses" }

\* the serializers with validate_patient_data
PatientCheckedOps == { "clarifying_questions", "recommend_specialists" }

\* the operations whose serializer has ListField fields
ListOps == { "final_report", "drug_interactions", "cme_topics" }

valid_languages == { "en", "uz-L", "uz-C", "ru" }

\* the language values of a request (Absent: the field is not sent)
LanguageInputs ==
  valid_languages \cup { Absent, "fr", "EN", "", "uz-Latn-UZ-x" }

\* the shapes of the patient_data value of a request
PatientDataInputs == { Absent, "null", "dict", "list", "str" }

\* the shapes of the list fields of a request (debate_history and
\* diagnoses, medications, analyses)
ListInputs == { Absent, "notlist", "list" }

\* the requests of operation o (a field its serializer does not declare is
\* ignored, so it is left out)
Requests(o) ==
  [language : LanguageInputs,
   patient_data : IF o \in PatientOps THEN PatientDataInputs ELSE {Absent},
   lists : IF o \in ListOps THEN ListInputs ELSE {Absent},
   items : {<< >>}]

\* CharField(default='en'[, max_length=10]) and validate_language
LanguageError(o, req) ==
  /\ req.language # Absent
  /\ \/ req.language = ""
     \/ o \in LanguageCheckedOps /\ Len(req.language) > 10
     \/ o \in LanguageCheckedOps /\ req.language \notin valid_languages

\* JSONField() and validate_patient_data
PatientDataError(o, req) ==
  /\ o \in PatientOps
  /\ \/ req.patient_data \in { Absent, "null" }
     \/ o \in PatientCheckedOps /\ req.patient_data # "dict"

\* ListField(child=...)
ListError(o, req) == o \in ListOps /\ req.lists # "list"

\* serializer.errors: the names of the fields that failed
SerializerErrors(o, req) ==
  (IF LanguageError(o, req) THEN {"language"} ELSE {})
  \cup (IF PatientDataError(o, req) THEN {"patient_data"} ELSE {})
  \cup (IF ListError(o, req) THEN {"lists"} ELSE {})

\* serializer.validated_data.get('language', 'en')
ValidatedLanguage(req) == IF req.language = Absent THEN "en" ELSE req.language

\* the language the view hands to the service
ViewLanguage(o, req) ==
  IF o = "clarifying_questions" /\ ValidatedLanguage(req) \notin valid_languages
  THEN "en"
  ELSE ValidatedLanguage(req)

\* patient_data.get(...) while the prompt is built
PromptError(o, req) == o \in PatientOps /\ req.patient_data # "dict"

\* Response(serializer.errors, status=400)
FieldErrorResponse(fields) ==
  [status |-> 400, error |-> "", fields |-> fields, body |-> JNull]

\* Response({'error': msg}, status=st)
ErrorResponse(st, msg) ==
  [status |-> st, error |-> msg, fields |-> {}, body |-> JNull]

\* Response(data)
OkResponse(data) ==
  [status |-> 200, error |-> "", fields |-> {}, body |-> data]

InvalidInputMsg == "Invalid input data. Please check your request."

UnavailableMsg(o) ==
  IF o = "clarifying_questions"
  THEN "Failed to generate clarifying questions. Please try again later."
  ELSE "Service temporarily unavailable. Please try again later."

\* except Exception placed before except ValueError
ExceptionResponse_ExceptionFirst(o, exc) == ErrorResponse(500, UnavailableMsg(o))

\* except ValueError / except Exception
ExceptionResponse(o, exc) ==
  IF exc = "ValueError"
  THEN ErrorResponse(400, InvalidInputMsg)
  ELSE ErrorResponse(500, UnavailableMsg(o))

\* questions[-10:]
LimitQuestions_Last(questions) ==
  SubSeq(questions, Len(questions) - Min(10, Len(questions)) + 1,
         Len(questions))

\* questions[:10]
LimitQuestions(questions) == SubSeq(questions, 1, Min(10, Len(questions)))

\* the service method of operation o, after the gateway call ended in r
Service(o, r) ==
  CASE o = "clarifying_questions"  -> GenerateClarifyingQuestions(r)
    [] o = "recommend_specialists" -> RecommendSpecialists(r)
    [] o = "initial_diagnoses"     -> GenerateInitialDiagnoses(r)
    [] o = "final_report"          -> GenerateFinalReport(r)
    [] o = "drug_interactions"     -> CheckDrugInteractions(r)
    [] o = "cme_topics"            -> SuggestCmeTopics(r)

\* the response of the view of operation o when its service call ended in sr
ViewResponse(o, sr) ==
  IF sr.kind = "raise" THEN ExceptionResponse(o, sr.exc)
  ELSE CASE o = "clarifying_questions" ->
              LET questions == IF sr.val.t = "arr" THEN sr.val.items
                               ELSE << >>
              IN  OkResponse(JObj(<<"questions">>,
                                  <<JArr(LimitQuestions(questions))>>))
         [] o = "recommend_specialists" -> OkResponse(sr.val)
         [] o = "initial_diagnoses" ->
              OkResponse(JObj(<<"diagnoses">>, <<sr.val>>))
         [] o = "final_report" -> OkResponse(sr.val)
         [] o = "drug_interactions" ->
              OkResponse(JObj(<<"interactions">>, <<sr.val>>))
         [] o = "cme_topics" -> OkResponse(JObj(<<"topics">>, <<sr.val>>))

(***************************************************************************)
(* The provider's answers to the requests of the views                     *)
(***************************************************************************)
RECURSIVE DigitsOf(_)
\* str(n) for a natural number n
DigitsOf(n) ==
  LET d == CHOOSE c \in Digits : DigitVal(c) = n % 10
  IN  IF n < 10 THEN <<d>> ELSE Append(DigitsOf(n \div 10), d)

RECURSIVE JsonDumps(_)
RECURSIVE DumpItems(_)
RECURSIVE DumpMembers(_, _)

\* json.dumps(v): the text of a JSON value
JsonDumps(v) ==
  CASE v.t = "null" -> <<"null">>
    [] v.t = "bool" -> IF v.n = 1 THEN <<"true">> ELSE <<"false">>
    [] v.t = "num"  -> DigitsOf(v.n)
    [] v.t = "str"  -> <<Lit(v.a)>>
    [] v.t = "arr"  -> <<"[">> \o DumpItems(v.items) \o <<"]">>
    [] v.t = "obj"  -> <<"{">> \o DumpMembers(v.keys, v.items) \o <<"}">>

DumpItems(xs) ==
  IF xs = << >> THEN << >>
  ELSE IF Len(xs) = 1 THEN JsonDumps(xs[1])
  ELSE JsonDumps(xs[1]) \o <<",", " ">> \o DumpItems(Tail(xs))

DumpMembers(ks, xs) ==
  IF ks = << >> THEN << >>
  ELSE LET m == <<Lit(ks[1]), ":", " ">> \o JsonDumps(xs[1])
       IN  IF Len(ks) = 1 THEN m
           ELSE m \o <<",", " ">> \o DumpMembers(Tail(ks), Tail(xs))

QuestionNames ==
  << "q1", "q2", "q3", "q4", "q5", "q6", "q7", "q8", "q9", "q10", "q11",
     "q12", "q13", "q14" >>

\* n questions, the first being question number first + 1
QuestionList(first, n) ==
  [i \in 1..n |-> JStr(QuestionNames[((first + i - 1) % 14) + 1])]

QuestionAnswers ==
  { JObj(<<"questions">>, <<JArr(QuestionList(f, n))>>) :
      f \in {0, 5}, n \in 0..MaxQuestions }
  \cup
  { JObj(<<"questions">>, <<v>>) :
      v \in { JNull, JStr("q1"), JNum(3), JBool(TRUE),
              JObj(<<"q">>, <<JStr("q1")>>), JArr(<<JNum(1), JNull>>) } }

\* a recommendation as the schema describes it
Rec(specialty) ==
  JObj(<<"specialty", "reason">>, <<JStr(specialty), JStr("because")>>)

\* a recommendation that already names a model
RecWithModel(specialty) ==
  JObj(<<"specialty", "reason", "model">>,
       <<JStr(specialty), JStr("because"), JStr("Mistral")>>)

\* n recommendations, the first being specialty number first + 1; every
\* second one names a model
RecList(first, n) ==
  [i \in 1..n |->
     LET sp == Specialties[((first + i - 1) % 20) + 1]
     IN  IF i % 2 = 0 THEN RecWithModel(sp) ELSE Rec(sp)]

\* recommendations that are not as the schema describes them
OddRecs ==
  { Rec("Astrology"), Rec("cardiology"), RecWithModel("Astrology"),
    JObj(<<"reason">>, <<JStr("because")>>),
    JObj(<<"specialty", "model">>, <<JNull, JStr("Claude")>>),
    JObj(<<"specialty">>, <<JNum(7)>>),
    JObj(<<"specialty">>, <<JArr(<<JStr("Cardiology")>>)>>),
    JStr("Cardiology"), JNull }

RecommendationLists ==
  { RecList(f, n) : f \in 0..19, n \in 0..MaxRecs }
  \cup
  { [RecList(0, n) EXCEPT ![k] = odd] :
      n \in {5, 6}, k \in {1, 5}, odd \in OddRecs }
  \cup
  { <<odd>> : odd \in OddRecs }

RecommendationAnswers ==
  { JObj(<<"recommendations">>, <<JArr(l)>>) : l \in RecommendationLists }
  \cup
  { JObj(<<"recommendations">>, <<v>>) :
      v \in { JNull, JStr("Cardiology"), JStr(""), JNum(5), JNum(0),
              JBool(TRUE), Rec("Cardiology"), JObj(<< >>, << >>) } }

OtherAnswers ==
  { JObj(<< >>, << >>), JNull, JNum(5), JStr("q1"), JBool(FALSE),
    JArr(<< >>), JArr(QuestionList(0, 3)), JArr(RecList(0, 5)),
    JObj(<<"diagnoses">>, <<JArr(<<JObj(<<"name">>, <<JStr("q1")>>)>>)>>),
    JObj(<<"interactions">>, <<JArr(<<JStr("q2")>>)>>),
    JObj(<<"topics">>, <<JNum(1)>>),
    JObj(<<"consensusDiagnosis", "questions">>,
         <<JArr(<< >>), JArr(QuestionList(0, 11))>>) }

ProviderValues == QuestionAnswers \cup RecommendationAnswers \cup OtherAnswers

\* the exception messages of the provider calls of the views
ViewMessages ==
  Fragments
  \cup { << >>, <<"Q", "u", "o", "t", "a">> \o <<" ">> \o <<"i", "n", "v", "a", "l", "i", "d">>,
         <<"M", "A", "L", "F", "O", "R", "M", "E", "D">> \o <<" ">> \o <<"r", "a", "t", "e", " ", "l", "i", "m", "i", "t">> }

\* provider texts that are no JSON
BrokenTexts ==
  { << >>, <<"{">>, <<"{", Lit("questions"), ":", "[">>,
    <<"[", Lit("q1"), ",", "]">>, <<"n", "o">>,
    FenceOpen \o <<"\n">> \o FenceClose,
    FenceOpen \o <<"\n", "{", Lit("questions"), "}", "\n">> \o FenceClose }

\* the texts the provider answers: a JSON value, bare or fenced, or no JSON
ProviderTexts ==
  { JsonDumps(v) : v \in ProviderValues }
  \cup { FenceOpen \o <<"\n">> \o JsonDumps(v) \o <<"\n">> \o FenceClose :
           v \in QuestionAnswers \cup OtherAnswers }
  \cup BrokenTexts

(***************************************************************************)
(* The prompts of the six operations: the target-language label, the       *)
(* debate summary of generate_final_report and the diagnosis names of      *)
(* suggest_cme_topics.                                                     *)
(***************************************************************************)
\* the dict lang_map of operation o (each of the six methods builds its own
\* copy of the same literal)
lang_map(o) ==
  "uz-L" :> "Uzbek (Latin script)"
  @@ "uz-C" :> "Uzbek (Cyrillic script)"
  @@ "ru" :> "Russian"
  @@ "en" :> "English"

\* lang_map.get(language, language)
target_lang_RawFallback(o, language) ==
  IF language \in DOMAIN lang_map(o) THEN lang_map(o)[language] ELSE language

\* target_lang = lang_map.get(language, 'English')
target_lang(o, language) ==
  IF language \in DOMAIN lang_map(o) THEN lang_map(o)[language]
  ELSE "English"

\* The fields of a debate turn: the field is absent, a string s, a number
\* n, null, or the empty list
FieldAbsent == [k |-> "absent", s |-> << >>, n |-> 0]

FieldStr(s) == [k |-> "str", s |-> s, n |-> 0]

FieldNum(n) == [k |-> "num", s |-> << >>, n |-> n]

FieldNull == [k |-> "null", s |-> << >>, n |-> 0]

FieldList == [k |-> "list", s |-> << >>, n |-> 0]

\* a debate turn that is a mapping
Turn(author, content) ==
  [t |-> "dict", author |-> author, content |-> content]

\* a debate turn that is a JSON string
TurnNotDict == [t |-> "str", author |-> FieldAbsent, content |-> FieldAbsent]

\* d.get(key, default) for a string default
FieldGet(field, default) ==
  IF field.k = "absent" THEN FieldStr(default) ELSE field

\* str(v), as an f-string formats a value
PyStr(v) ==
  CASE v.k = "str" -> v.s
    [] v.k = "num" -> DigitsOf(v.n)
    [] v.k = "null" -> <<"N", "o", "n", "e">>
    [] v.k = "list" -> <<"[", "]">>

\* xs[:n]
Take(xs, n) == SubSeq(xs, 1, Min(n, Len(xs)))

\* xs[-n:]
TakeLast(xs, n) == SubSeq(xs, Len(xs) - Min(n, Len(xs)) + 1, Len(xs))

\* v[:200]: a string or a list can be sliced, a number and None cannot
\* (FieldAbsent stands for the TypeError)
Truncate(v) ==
  CASE v.k = "str" -> FieldStr(Take(v.s, 200))
    [] v.k = "list" -> v
    [] OTHER -> FieldAbsent

\* the line of one debate turn:
\* f"{msg.get('author', 'Unknown')}: {msg.get('content', '')[:200]}..."
DebateLine(msg) ==
  IF msg.t # "dict" THEN [exc |-> "AttributeError", text |-> << >>]
  ELSE LET author == FieldGet(msg.author, <<"U", "n", "k", "n", "o", "w", "n">>)
           content == Truncate(FieldGet(msg.content, << >>))
       IN  IF content.k = "absent"
           THEN [exc |-> "TypeError", text |-> << >>]
           ELSE [exc |-> "",
                 text |-> PyStr(author) \o <<":", " ">> \o PyStr(content)
                          \o <<".", ".", ".">>]

RECURSIVE Join(_, _)
\* sep.join(parts)
Join(sep, parts) ==
  IF parts = << >> THEN << >>
  ELSE IF Len(parts) = 1 THEN Head(parts)
  ELSE Head(parts) \o sep \o Join(sep, Tail(parts))

\* debate_history[:10]
RecentTurns_First(debate_history) == Take(debate_history, 10)

\* debate_history[-10:]
RecentTurns(debate_history) == TakeLast(debate_history, 10)

\* debate_summary: the lines of the last ten turns, joined with newlines;
\* the first turn that cannot be formatted raises
DebateSummary(debate_history) ==
  LET lines == [i \in DOMAIN RecentTurns(debate_history) |->
                  DebateLine(RecentTurns(debate_history)[i])]
  IN  IF \E i \in DOMAIN lines : lines[i].exc # ""
      THEN [exc |-> lines[CHOOSE i \in DOMAIN lines :
                            /\ lines[i].exc # ""
                            /\ \A j \in 1..(i - 1) : lines[j].exc = ""].exc,
            text |-> << >>]
      ELSE [exc |-> "",
            text |-> Join(<<"\n">>, [i \in DOMAIN lines |-> lines[i].text])]

\* An entry of the analyses list of suggest_cme_topics: t tells whether it
\* is a mapping, created_at is its time stamp, report its final_report.
\* A final_report is absent, null or a mapping (k) with the value cd under
\* consensusDiagnosis; that value is absent, a number or a list (k) of
\* items; an item is a mapping with a name field, or a string.
AnalysisEntry(t, created_at, report) ==
  [t |-> t, created_at |-> created_at, report |-> report]

Report(k, cd) == [k |-> k, cd |-> cd]

Consensus(k, items) == [k |-> k, items |-> items]

Dx(name) == [t |-> "dict", name |-> name]

DxNotDict == [t |-> "str", name |-> FieldAbsent]

NoConsensus == Consensus("absent", << >>)

NoReport == Report("absent", NoConsensus)

\* the names one entry of the list appends to diagnoses (ok = FALSE: the
\* consensusDiagnosis value cannot be iterated)
EntryNames(analysis) ==
  IF analysis.t = "dict" /\ analysis.report.k # "absent"
  THEN LET report == analysis.report
       IN  IF report.k = "dict" /\ report.cd.k # "absent"
           THEN IF report.cd.k # "list"
                THEN [ok |-> FALSE, names |-> << >>]
                ELSE [ok |-> TRUE,
                      names |->
                        LET dicts == SelectSeq(report.cd.items,
                                               LAMBDA dx : dx.t = "dict")
                        IN  [i \in DOMAIN dicts |->
                               FieldGet(dicts[i].name, << >>)]]
           ELSE [ok |-> TRUE, names |-> << >>]
  ELSE [ok |-> TRUE, names |-> << >>]

\* analyses[:10]
RecentAnalyses(analyses) == Take(analyses, 10)

\* set(diagnoses): each member once; the order a set is read in is not
\* fixed, so the members are kept as a bag
Dedupe(diagnoses) ==
  [x \in { diagnoses[i] : i \in DOMAIN diagnoses } |-> 1]

\* diagnoses_str: the names of the first ten entries, the first 20 of them
\* as a set, joined (join takes strings only)
DiagnosesStr(analyses) ==
  LET recent == RecentAnalyses(analyses)
      parts == [i \in DOMAIN recent |-> EntryNames(recent[i])]
  IN  IF \E i \in DOMAIN parts : ~parts[i].ok
      THEN [exc |-> "TypeError", names |-> << >>]
      ELSE LET diagnoses ==
                 Flatten([i \in DOMAIN parts |-> parts[i].names])
               members == Dedupe(Take(diagnoses, 20))
           IN  IF \E x \in DOMAIN members : x.k # "str"
               THEN [exc |-> "TypeError", names |-> << >>]
               ELSE [exc |-> "",
                     names |-> [n \in { x.s : x \in DOMAIN members } |->
                                  members[FieldStr(n)]]]

\* the service method raises exc while it builds the prompt
PromptRaises(exc) == [exc |-> exc, prompt |-> NoPrompt]

\* the service method built the prompt p
PromptBuilt(p) == [exc |-> "", prompt |-> p]

\* the parts of the prompt a service method builds before it calls the
\* provider, or the exception raised while it builds them
BuildPrompt(o, language, patient_data, items) ==
  LET summary == IF o = "final_report" THEN DebateSummary(items)
                 ELSE [exc |-> "", text |-> << >>]
      diagnoses == IF o = "cme_topics" THEN DiagnosesStr(items)
                   ELSE [exc |-> "", names |-> << >>]
  IN  IF summary.exc # "" THEN PromptRaises(summary.exc)
      ELSE IF diagnoses.exc # "" THEN PromptRaises(diagnoses.exc)
      ELSE IF o \in PatientOps /\ patient_data # "dict"
      THEN PromptRaises("AttributeError")
      ELSE PromptBuilt([target_lang |-> target_lang(o, language),
                        summary |-> summary.text,
                        diagnoses_str |-> diagnoses.names])

(***************************************************************************)
(* The views as a state machine: a request is received and validated, the  *)
(* prompt is built and the provider called; the provider's outcome is      *)
(* turned into the response.                                               *)
(***************************************************************************)
Init ==
  /\ pc = "received"
  /\ op \in Ops
  /\ request \in Requests(op)
  /\ prompt = NoPrompt
  /\ calls = 0
  /\ response = NoResponse
  /\ db = << >>
  /\ users = NoStats
  /\ lastReq = NoLast
  /\ cases = << >>
  /\ workers = << >>
  /\ dash = NoDash
  /\ searched = NoSearch
  /\ gwSchema = TRUE
  /\ gwOutcome = NoOutcome
  /\ gwParts = NoParts
  /\ gwResult = NoResult

\* the view up to the provider call: the serializer, the checks of the
\* view and the prompt of the service method
HandleRequest ==
  /\ pc = "received"
  /\ IF SerializerErrors(op, request) # {}
     THEN /\ response' = FieldErrorResponse(SerializerErrors(op, request))
          /\ pc' = "done"
          /\ UNCHANGED <<prompt, calls>>
     ELSE IF op = "clarifying_questions" /\ request.patient_data # "dict"
     THEN /\ response' = ErrorResponse(400, "Invalid patient data format")
          /\ pc' = "done"
          /\ UNCHANGED <<prompt, calls>>
     ELSE LET b == BuildPrompt(op, ViewLanguage(op, request),
                               request.patient_data, request.items)
          IN  IF b.exc # ""
              THEN /\ response' = ExceptionResponse(op, b.exc)
                   /\ pc' = "done"
                   /\ UNCHANGED <<prompt, calls>>
              ELSE /\ response' = response
                   /\ prompt' = b.prompt
                   /\ pc' = "calling"
                   /\ calls' = calls + 1
  /\ UNCHANGED <<op, request>>
  /\ UNCHANGED gwVars
  /\ UNCHANGED <<crudVars, libVars>>

\* the rest of the view once the provider call ended in outcome o
Complete(o) ==
  /\ gwOutcome' = o
  /\ LET r == CallGemini(gwSchema, o)
     IN  /\ gwResult' = r
         /\ response' = ViewResponse(op, Service(op, r))
  /\ pc' = "done"
  /\ UNCHANGED <<gwSchema, gwParts, op, request, prompt, calls>>
  /\ UNCHANGED <<crudVars, libVars>>

\* the provider call raises an exception
ProviderFailure ==
  /\ pc = "calling"
  /\ \E msg \in ViewMessages : Complete(ProviderRaises(msg))

\* the provider call answers a text
ProviderAnswer ==
  /\ pc = "calling"
  /\ \E text \in ProviderTexts : Complete(ProviderAnswers(text))

Next == HandleRequest \/ ProviderFailure \/ ProviderAnswer

Spec == Init /\ [][Next]_vars

SpecGateway == InitGateway /\ [][NextGateway]_vars

(***************************************************************************)
(* The service methods up to the provider call: a method is called with    *)
(* its arguments and builds its prompt.                                    *)
(***************************************************************************)
\* the language arguments of a service method
ServiceLanguages == LanguageInputs \ {Absent}

\* the lengths of the content strings of the debate turns
ContentLengths == <<0, 1, 199, 200, 201, 230>>

\* a content string of n characters: the digits of the positions
ContentText(n) == [j \in 1..n |-> DigitsOf(j % 10)[1]]

\* the i-th turn of a debate history: its author carries its number, its
\* content length goes round ContentLengths from position p
PlainTurn(i, p) ==
  Turn(FieldStr(<<"d">> \o DigitsOf(i)),
       FieldStr(ContentText(ContentLengths[((i + p) % 6) + 1])))

PlainHistory(n, p) == [i \in 1..n |-> PlainTurn(i, p)]

\* turns of other shapes: no mapping, a mapping without author and content,
\* a content with a line break, contents that are no strings
OddTurns ==
  { TurnNotDict,
    Turn(FieldAbsent, FieldAbsent),
    Turn(FieldNull, FieldStr(<<"a", "\n", "b">>)),
    Turn(FieldStr(<<"x">>), FieldNum(5)),
    Turn(FieldNum(7), FieldList),
    Turn(FieldStr(<<"x">>), FieldNull) }

\* the debate histories of the final-report calls
DebateHistories ==
  { PlainHistory(n, p) : n \in 0..MaxTurns, p \in 0..5 }
  \cup { [PlainHistory(n, 0) EXCEPT ![k] = odd] :
           n \in {1, 5, MaxTurns}, k \in {1}, odd \in OddTurns }
  \cup { [PlainHistory(n, 0) EXCEPT ![n] = odd] :
           n \in {5, MaxTurns}, odd \in OddTurns }

\* the name of diagnosis number i
DxName(i) == <<"d", "x">> \o DigitsOf(i)

\* the analysis recorded at time at, with MaxDx diagnoses: all its own
\* (q = 0) or shared with other analyses (q = 1)
PlainAnalysis(at, q) ==
  AnalysisEntry("dict", at,
    Report("dict",
      Consensus("list",
        [j \in 1..MaxDx |->
           Dx(FieldStr(DxName(IF q = 0 THEN (at - 1) * MaxDx + j
                              ELSE (at + j) % 4)))])))

\* n analyses, the newest first (as the analyses endpoint lists them) or
\* the oldest first
PlainAnalyses(n, order, q) ==
  [i \in 1..n |->
     PlainAnalysis(IF order = "newest_first" THEN n - i + 1 ELSE i, q)]

\* entries of other shapes, recorded at time at: no mapping; no
\* final_report; a null final_report; no consensusDiagnosis; a number as
\* consensusDiagnosis; items that are no mappings or have no name; a name
\* that is a number
OddAnalyses(at) ==
  { AnalysisEntry("str", at, NoReport),
    AnalysisEntry("dict", at, NoReport),
    AnalysisEntry("dict", at, Report("null", NoConsensus)),
    AnalysisEntry("dict", at, Report("dict", NoConsensus)),
    AnalysisEntry("dict", at, Report("dict", Consensus("num", << >>))),
    AnalysisEntry("dict", at,
      Report("dict", Consensus("list", <<DxNotDict, Dx(FieldAbsent)>>))),
    AnalysisEntry("dict", at,
      Report("dict", Consensus("list", <<Dx(FieldNum(3))>>))) }

\* the analyses lists of the cme-topics calls
AnalysesLists ==
  { PlainAnalyses(n, order, q) :
      n \in 0..MaxAnalyses, order \in {"newest_first", "oldest_first"},
      q \in {0, 1} }
  \cup { [PlainAnalyses(n, "oldest_first", 0) EXCEPT ![1] = odd] :
           n \in {1, 5, MaxAnalyses}, odd \in OddAnalyses(1) }
  \cup UNION { { [PlainAnalyses(n, "oldest_first", 0) EXCEPT ![n] = odd] :
                  odd \in OddAnalyses(n) } : n \in {5, MaxAnalyses} }
  \cup { <<a, b>> : a \in OddAnalyses(1), b \in OddAnalyses(2) }

\* the arguments of the service method of operation o: every language with
\* every shape of patient_data, for generate_final_report also every
\* debate history and for suggest_cme_topics every analyses list
ServiceRequests(o) ==
  [language : ServiceLanguages,
   patient_data : IF o \in PatientOps THEN PatientDataInputs \ {Absent}
                  ELSE {Absent},
   lists : IF o \in ListOps THEN {"list"} ELSE {Absent},
   items : {<< >>}]
  \cup (IF o = "final_report"
        THEN { [language |-> "en", patient_data |-> "dict", lists |-> "list",
                items |-> h] : h \in DebateHistories }
        ELSE {})
  \cup (IF o = "cme_topics"
        THEN { [language |-> "en", patient_data |-> Absent, lists |-> "list",
                items |-> h] : h \in AnalysesLists }
        ELSE {})

InitPrompt ==
  /\ pc = "service"
  /\ op \in Ops
  /\ request \in ServiceRequests(op)
  /\ prompt = NoPrompt
  /\ calls = 0
  /\ response = NoResponse
  /\ db = << >>
  /\ users = NoStats
  /\ lastReq = NoLast
  /\ cases = << >>
  /\ workers = << >>
  /\ dash = NoDash
  /\ searched = NoSearch
  /\ gwSchema = TRUE
  /\ gwOutcome = NoOutcome
  /\ gwParts = NoParts
  /\ gwResult = NoResult

\* the service method builds its prompt, or raises
PromptStep ==
  /\ pc = "service"
  /\ LET b == BuildPrompt(op, request.language, request.patient_data,
                          request.items)
     IN  /\ prompt' = b.prompt
         /\ pc' = IF b.exc = "" THEN "built" ELSE "raised"
  /\ UNCHANGED <<op, request, calls, response>>
  /\ UNCHANGED gwVars
  /\ UNCHANGED <<crudVars, libVars>>

NextPrompt == PromptStep

SpecPrompt == InitPrompt /\ [][NextPrompt]_vars

(***************************************************************************)
(* The Analysis table and the AnalysisViewSet.  db is the table: the row   *)
(* with id i is db[i]; ids rise with created_at and a deleted row keeps    *)
(* its place.  A request is made by an authenticated user u with query     *)
(* parameters q.                                                           *)
(***************************************************************************)
FieldBool(b) == [k |-> "bool", s |-> << >>, n |-> IF b THEN 1 ELSE 0]

\* a JSON object with text s
FieldDict(s) == [k |-> "dict", s |-> s, n |-> 0]

P1 == <<"p", "1">>

P2 == <<"p", "2">>

\* json.dumps of two patient_data objects
Alice == <<"{", "n", "a", "m", "e", ":", "A", "l", "i", "c", "e", "}">>

Bob == <<"{", "n", "a", "m", "e", ":", "B", "o", "b", "}">>

\* final_report is null (the default of the JSONField)
NoFinalReport == [k |-> "null", names |-> << >>]

\* Analysis(user=..., patient_id=..., patient_data=..., is_completed=...)
Row(user, patient_id, patient_data, is_completed) ==
  [user |-> user, patient_id |-> patient_id, patient_data |-> patient_data,
   is_completed |-> is_completed, final_report |-> NoFinalReport,
   deleted |-> FALSE]

\* the place of a deleted row: only its owner is kept, for the record
Deleted(row) ==
  [user |-> row.user, patient_id |-> << >>, patient_data |-> << >>,
   is_completed |-> FALSE, final_report |-> NoFinalReport, deleted |-> TRUE]

\* CaseLibrary(analysis=..., tags=..., final_diagnosis=..., outcome=...,
\* is_public=...); tags holds the JSON text of the list; view_count has
\* default 0
Case(analysis, tags, final_diagnosis, outcome, is_public) ==
  [analysis |-> analysis, tags |-> tags, final_diagnosis |-> final_diagnosis,
   outcome |-> outcome, is_public |-> is_public, view_count |-> 0,
   deleted |-> FALSE]

\* the place of a deleted entry: the analysis it was attached to is kept,
\* for the record
DeletedCase(case) ==
  [analysis |-> case.analysis, tags |-> << >>, final_diagnosis |-> << >>,
   outcome |-> << >>, is_public |-> FALSE, view_count |-> 0,
   deleted |-> TRUE]

\* request.query_params
Query(is_completed, patient_id, search, ordering) ==
  [is_completed |-> is_completed, patient_id |-> patient_id,
   search |-> search, ordering |-> ordering]

NoQuery == Query(FieldAbsent, FieldAbsent, FieldAbsent, FieldAbsent)

\* the query parameters of the list and recent requests
Queries ==
  { Query(c, p, s, o) :
      c \in { FieldAbsent, FieldStr(<<"T", "r", "u", "e">>),
              FieldStr(<<"n", "o">>) },
      p \in { FieldAbsent, FieldStr(P1) },
      s \in { FieldAbsent, FieldStr(<<"a", "l", "i">>) },
      o \in { FieldAbsent, FieldStr(<<"b", "o", "g", "u", "s">>) } }
  \cup { Query(FieldAbsent, FieldAbsent, FieldAbsent,
                FieldStr(<<"c", "r", "e", "a", "t", "e", "d", "_", "a", "t">>)),
         Query(FieldStr(<<"t", "r", "u", "e">>), FieldStr(P2),
               FieldStr(<<"B", "O", "B">>), FieldStr(<< >>)) }

\* the query parameters of the requests for one record
DetailQueries ==
  { NoQuery,
    Query(FieldStr(<<"n", "o">>), FieldAbsent, FieldAbsent, FieldAbsent),
    Query(FieldAbsent, FieldAbsent, FieldAbsent,
          FieldStr(<<"b", "o", "g", "u", "s">>)) }

\* the body of a create or update request (partial: PATCH)
Payload(partial, user, patient_id, patient_data, is_completed) ==
  [partial |-> partial, user |-> user, patient_id |-> patient_id,
   patient_data |-> patient_data, is_completed |-> is_completed]

CreatePayloads ==
  { Payload(FALSE, FieldAbsent, FieldStr(P1), FieldDict(Alice), FieldAbsent),
    Payload(FALSE, FieldStr(<<"u", "2">>), FieldStr(P2), FieldDict(Bob),
            FieldBool(FALSE)),
    Payload(FALSE, FieldStr(<<"u", "1">>), FieldStr(<<"p", " ", "1">>),
            FieldDict(Alice), FieldBool(TRUE)),
    Payload(FALSE, FieldAbsent, FieldStr(P1), FieldList, FieldAbsent),
    Payload(FALSE, FieldAbsent, FieldAbsent, FieldDict(Bob), FieldAbsent) }

UpdatePayloads ==
  { Payload(TRUE, FieldStr(<<"u", "2">>), FieldAbsent, FieldAbsent,
            FieldBool(FALSE)),
    Payload(FALSE, FieldStr(<<"u", "1">>), FieldStr(P2), FieldDict(Bob),
            FieldBool(TRUE)),
    Payload(FALSE, FieldAbsent, FieldStr(P1), FieldAbsent, FieldAbsent),
    Payload(TRUE, FieldAbsent, FieldStr(P1), FieldDict(Alice), FieldAbsent) }

\* re.match(r'^[a-zA-Z0-9_-]+$', value)
PatientIdChars ==
  { "a", "b", "c", "d", "e", "f", "g", "h", "i", "j", "k", "l", "m", "n",
    "o", "p", "q", "r", "s", "t", "u", "v", "w", "x", "y", "z",
    "A", "B", "C", "D", "E", "F", "G", "H", "I", "J", "K", "L", "M", "N",
    "O", "P", "Q", "R", "S", "T", "U", "V", "W", "X", "Y", "Z",
    "0", "1", "2", "3", "4", "5", "6", "7", "8", "9", "_", "-" }

\* CharField(max_length=255) and validate_patient_id
PatientIdInvalid(payload) ==
  IF payload.patient_id.k = "absent" THEN ~payload.partial
  ELSE \/ payload.patient_id.k # "str"
       \/ payload.patient_id.s = << >>
       \/ Len(payload.patient_id.s) > 255
       \/ \E i \in DOMAIN payload.patient_id.s :
            payload.patient_id.s[i] \notin PatientIdChars

\* JSONField and validate_patient_data -> validate_json_structure
PatientDataInvalid(payload) ==
  IF payload.patient_data.k = "absent" THEN ~payload.partial
  ELSE payload.patient_data.k # "dict"

\* serializer.is_valid() of AnalysisSerializer
PayloadValid(payload) ==
  ~PatientIdInvalid(payload) /\ ~PatientDataInvalid(payload)

\* the ids of the rows of a table that satisfy Keep, in rising order
SelectIds(table, Keep(_)) ==
  SelectSeq([i \in 1..Len(table) |-> i],
            LAMBDA i : ~table[i].deleted /\ Keep(table[i]))

\* reversed(xs)
Reverse(xs) == [i \in 1..Len(xs) |-> xs[Len(xs) + 1 - i]]

CreatedAt == <<"c", "r", "e", "a", "t", "e", "d", "_", "a", "t">>

\* Analysis.objects.all() with the filters of the query parameters
GetQueryset_AllUsers(u, q) ==
  LET ordering == IF q.ordering.k = "absent" THEN <<"-">> \o CreatedAt
                  ELSE q.ordering.s
      Keep(row) ==
        /\ q.is_completed.k # "absent" =>
             row.is_completed = (Lower(q.is_completed.s) = <<"t", "r", "u", "e">>)
        /\ (q.patient_id.k # "absent" /\ q.patient_id.s # << >>) =>
             row.patient_id = q.patient_id.s
        /\ (q.search.k # "absent" /\ q.search.s # << >>) =>
             Contains(Lower(row.patient_data), Lower(q.search.s))
      ids == SelectIds(db, Keep)
  IN  IF ordering = << >> \/ ordering = <<"-">> \o CreatedAt
      THEN [ok |-> TRUE, ids |-> Reverse(ids)]
      ELSE IF ordering = CreatedAt THEN [ok |-> TRUE, ids |-> ids]
      ELSE [ok |-> FALSE, ids |-> << >>]

\* get_queryset: the rows of user u that pass the filters of the query
\* parameters, ordered (the newest first by default); an ordering that
\* names no field raises FieldError (ok = FALSE)
GetQueryset(u, q) ==
  LET ordering == IF q.ordering.k = "absent" THEN <<"-">> \o CreatedAt
                  ELSE q.ordering.s
      Keep(row) ==
        /\ row.user = u
        /\ q.is_completed.k # "absent" =>
             row.is_completed = (Lower(q.is_completed.s) = <<"t", "r", "u", "e">>)
        /\ (q.patient_id.k # "absent" /\ q.patient_id.s # << >>) =>
             row.patient_id = q.patient_id.s
        /\ (q.search.k # "absent" /\ q.search.s # << >>) =>
             Contains(Lower(row.patient_data), Lower(q.search.s))
      ids == SelectIds(db, Keep)
  IN  IF ordering = << >> \/ ordering = <<"-">> \o CreatedAt
      THEN [ok |-> TRUE, ids |-> Reverse(ids)]
      ELSE IF ordering = CreatedAt THEN [ok |-> TRUE, ids |-> ids]
      ELSE [ok |-> FALSE, ids |-> << >>]

\* get_object: 200 when the queryset holds the row with id pk, 404 when not,
\* 500 when the queryset raises
GetObject(u, pk, q) ==
  LET qs == GetQueryset(u, q)
  IN  IF ~qs.ok THEN 500
      ELSE IF \E i \in DOMAIN qs.ids : qs.ids[i] = pk THEN 200 ELSE 404

\* the outcome of a request: the records returned and the records modified
Outcome(u, action, status, returned, modified) ==
  [n |-> lastReq.n + 1, user |-> u, action |-> action, status |-> status,
   returned |-> returned, modified |-> modified]

\* a run holds at most MaxRequests requests
CanRequest == lastReq.n < MaxRequests

\* User.update_stats: total_analyses = Analysis.objects.filter(user=u).count()
UpdateStats(table, u) ==
  [users EXCEPT ![u].total_analyses =
     Len(SelectIds(table, LAMBDA row : row.user = u))]

\* create without the two assignments to validated_data: is_completed is
\* the value of the payload, or the default of the model
CreatedRow_FromPayload(u, payload) ==
  Row(u, payload.patient_id.s, payload.patient_data.s,
      payload.is_completed.k = "bool" /\ payload.is_completed.n = 1)

\* AnalysisSerializer.create: user is the requesting user (a user in the
\* payload is read-only and dropped) and is_completed is True
CreatedRow(u, payload) ==
  Row(u, payload.patient_id.s, payload.patient_data.s, TRUE)

\* ModelViewSet.create: AnalysisSerializer.create sets the user and
\* is_completed, Analysis.save updates the statistics of the user
AnalysisCreate(u, payload) ==
  /\ CanRequest
  /\ UNCHANGED <<gwVars, viewVars, libVars>>
  /\ IF ~PayloadValid(payload)
     THEN /\ lastReq' = Outcome(u, "create", 400, << >>, {})
          /\ UNCHANGED <<db, users>>
     ELSE LET table == Append(db, CreatedRow(u, payload))
          IN  /\ db' = table
              /\ users' = UpdateStats(table, u)
              /\ lastReq' = Outcome(u, "create", 201, <<Len(table)>>,
                                    {Len(table)})

\* ModelViewSet.list
AnalysisList(u, q) ==
  /\ CanRequest
  /\ UNCHANGED <<gwVars, viewVars, libVars>>
  /\ LET qs == GetQueryset(u, q)
     IN  lastReq' = Outcome(u, "list", IF qs.ok THEN 200 ELSE 500, qs.ids, {})
  /\ UNCHANGED <<db, users>>

\* ModelViewSet.retrieve
AnalysisRetrieve(u, pk, q) ==
  /\ CanRequest
  /\ UNCHANGED <<gwVars, viewVars, libVars>>
  /\ LET st == GetObject(u, pk, q)
     IN  lastReq' = Outcome(u, "retrieve", st,
                            IF st = 200 THEN <<pk>> ELSE << >>, {})
  /\ UNCHANGED <<db, users>>

\* ModelViewSet.update and partial_update: user is read-only, the other
\* fields of the payload are written
AnalysisUpdate(u, pk, q, payload) ==
  /\ CanRequest
  /\ UNCHANGED <<gwVars, viewVars, libVars>>
  /\ LET st == GetObject(u, pk, q)
     IN  IF st # 200
         THEN /\ lastReq' = Outcome(u, "update", st, << >>, {})
              /\ UNCHANGED <<db, users>>
         ELSE IF ~PayloadValid(payload)
         THEN /\ lastReq' = Outcome(u, "update", 400, << >>, {})
              /\ UNCHANGED <<db, users>>
         ELSE /\ db' = [db EXCEPT ![pk] =
                          [@ EXCEPT
                             !.patient_id =
                                IF payload.patient_id.k = "absent" THEN @
                                ELSE payload.patient_id.s,
                             !.patient_data =
                                IF payload.patient_data.k = "absent" THEN @
                                ELSE payload.patient_data.s,
                             !.is_completed =
                                IF payload.is_completed.k = "absent" THEN @
                                ELSE payload.is_completed.n = 1]]
              /\ lastReq' = Outcome(u, "update", 200, <<pk>>, {pk})
              /\ UNCHANGED users

\* ModelViewSet.destroy; the entry of the case library attached to the
\* record is deleted with it (on_delete=models.CASCADE)
AnalysisDestroy(u, pk, q) ==
  /\ CanRequest
  /\ UNCHANGED <<gwVars, viewVars, workers, dash, searched>>
  /\ LET st == GetObject(u, pk, q)
     IN  IF st # 200
         THEN /\ lastReq' = Outcome(u, "destroy", st, << >>, {})
              /\ UNCHANGED <<db, users, cases>>
         ELSE /\ db' = [db EXCEPT ![pk] = Deleted(@)]
              /\ cases' = [i \in DOMAIN cases |->
                             IF cases[i].analysis = pk
                             THEN DeletedCase(cases[i]) ELSE cases[i]]
              /\ lastReq' = Outcome(u, "destroy", 204, << >>, {pk})
              /\ UNCHANGED users

\* AnalysisViewSet.complete
AnalysisComplete(u, pk, q) ==
  /\ CanRequest
  /\ UNCHANGED <<gwVars, viewVars, libVars>>
  /\ LET st == GetObject(u, pk, q)
     IN  IF st # 200
         THEN /\ lastReq' = Outcome(u, "complete", st, << >>, {})
              /\ UNCHANGED <<db, users>>
         ELSE /\ db' = [db EXCEPT ![pk].is_completed = TRUE]
              /\ lastReq' = Outcome(u, "complete", 200, <<pk>>, {pk})
              /\ UNCHANGED users

\* AnalysisViewSet.longitudinal: get_object is inside the try block, so its
\* Http404 is answered 500 as well
AnalysisLongitudinal(u, pk, q) ==
  /\ CanRequest
  /\ UNCHANGED <<gwVars, viewVars, libVars>>
  /\ IF GetObject(u, pk, q) # 200
     THEN lastReq' = Outcome(u, "longitudinal", 500, << >>, {})
     ELSE lastReq' =
            Outcome(u, "longitudinal", 200,
                    SelectIds(db, LAMBDA row :
                                    /\ row.user = u
                                    /\ row.patient_id = db[pk].patient_id),
                    {})
  /\ UNCHANGED <<db, users>>

\* AnalysisViewSet.recent
AnalysisRecent(u, q) ==
  /\ CanRequest
  /\ UNCHANGED <<gwVars, viewVars, libVars>>
  /\ LET qs == GetQueryset(u, q)
     IN  lastReq' = Outcome(u, "recent", IF qs.ok THEN 200 ELSE 500,
                            Take(qs.ids, 5), {})
  /\ UNCHANGED <<db, users>>

InitAnalyses ==
  /\ db = << >>
  /\ users = NoStats
  /\ lastReq = NoLast
  /\ cases = << >>
  /\ workers = << >>
  /\ dash = NoDash
  /\ searched = NoSearch
  /\ pc = "idle"
  /\ op = "none"
  /\ request = NoRequest
  /\ prompt = NoPrompt
  /\ calls = 0
  /\ response = NoResponse
  /\ gwSchema = TRUE
  /\ gwOutcome = NoOutcome
  /\ gwParts = NoParts
  /\ gwResult = NoResult

\* a request of a user; the id of a request for one record is the id of a
\* row or the next id, which no row has
NextAnalyses ==
  \/ \E u \in UserIds, payload \in CreatePayloads : AnalysisCreate(u, payload)
  \/ \E u \in UserIds, q \in Queries : AnalysisList(u, q)
  \/ \E u \in UserIds, q \in Queries : AnalysisRecent(u, q)
  \/ \E u \in UserIds, pk \in 1..(Len(db) + 1), q \in DetailQueries :
       AnalysisRetrieve(u, pk, q)
  \/ \E u \in UserIds, pk \in 1..(Len(db) + 1), q \in DetailQueries :
       AnalysisDestroy(u, pk, q)
  \/ \E u \in UserIds, pk \in 1..(Len(db) + 1), q \in DetailQueries :
       AnalysisComplete(u, pk, q)
  \/ \E u \in UserIds, pk \in 1..(Len(db) + 1), q \in DetailQueries :
       AnalysisLongitudinal(u, pk, q)
  \/ \E u \in UserIds, pk \in 1..(Len(db) + 1), q \in DetailQueries,
        payload \in UpdatePayloads : AnalysisUpdate(u, pk, q, payload)

SpecAnalyses == InitAnalyses /\ [][NextAnalyses]_vars

(***************************************************************************)
(* The CaseLibrary records                                                 *)
(***************************************************************************)
\* the AI service is idle: no request, no provider call
IdleService ==
  /\ pc = "idle"
  /\ op = "none"
  /\ request = NoRequest
  /\ prompt = NoPrompt
  /\ calls = 0
  /\ response = NoResponse
  /\ gwSchema = TRUE
  /\ gwOutcome = NoOutcome
  /\ gwParts = NoParts
  /\ gwResult = NoResult

\* CaseLibrary.objects.all(): no filter
Visible_Everything(u, case) ==
  ~case.deleted

\* Q(analysis__user=self.request.user) | Q(is_public=True)
Visible(u, case) ==
  /\ ~case.deleted
  /\ db[case.analysis].user = u \/ case.is_public

\* CaseLibraryViewSet.get_queryset: the ids of the entries user u sees, the
\* newest first (Meta.ordering)
CaseQueryset(u) ==
  Reverse(SelectSeq([i \in 1..Len(cases) |-> i],
                    LAMBDA i : Visible(u, cases[i])))

\* get_object of the CaseLibraryViewSet: 200 or 404
CaseObject(u, pk) ==
  IF \E i \in DOMAIN CaseQueryset(u) : CaseQueryset(u)[i] = pk
  THEN 200 ELSE 404

Fever == <<"f", "e", "v", "e", "r">>

Flu == <<"F", "l", "u">>

Tags == <<"[", "\"", "f", "l", "u", "\"", "]">>

(***************************************************************************)
(* Requests that run concurrently: creations of an Analysis and view       *)
(* calls on a case (SpecConcurrent).  A request is a sequence of database  *)
(* statements; the statements of different requests interleave.           *)
(***************************************************************************)
Jobs == {"create", "view"}

\* a request: its job, its user, its next statement and the value it holds
Worker(job, user) ==
  [job |-> job, user |-> user, at |-> "start", local |-> 0, status |-> 0]

\* Analysis.save of a new record, first statement: super().save(), the
\* INSERT
CreateSave(w) ==
  /\ workers[w].job = "create"
  /\ workers[w].at = "start"
  /\ db' = Append(db, Row(workers[w].user, P1, Alice, TRUE))
  /\ workers' = [workers EXCEPT ![w].at = "count"]
  /\ UNCHANGED <<users, cases>>

\* User.update_stats, first statement:
\* Analysis.objects.filter(user=self).count()
CreateCount(w) ==
  /\ workers[w].job = "create"
  /\ workers[w].at = "count"
  /\ workers' = [workers EXCEPT
                   ![w].at = "write",
                   ![w].local =
                      Len(SelectIds(db, LAMBDA row :
                                          row.user = workers[w].user))]
  /\ UNCHANGED <<db, users, cases>>

\* User.update_stats, second statement: self.save(update_fields=
\* ['total_analyses']), the UPDATE; the request answers 201
CreateWrite(w) ==
  /\ workers[w].job = "create"
  /\ workers[w].at = "write"
  /\ users' = [users EXCEPT
                 ![workers[w].user].total_analyses = workers[w].local]
  /\ workers' = [workers EXCEPT ![w].at = "done", ![w].status = 201]
  /\ UNCHANGED <<db, cases>>

\* CaseLibraryViewSet.view, first statement: case = self.get_object(), the
\* SELECT (404 when the user does not see the entry)
ViewGet(w, pk) ==
  /\ workers[w].job = "view"
  /\ workers[w].at = "start"
  /\ IF CaseObject(workers[w].user, pk) = 200
     THEN workers' = [workers EXCEPT ![w].at = "save",
                                     ![w].local = cases[pk].view_count]
     ELSE workers' = [workers EXCEPT ![w].at = "done", ![w].status = 404]
  /\ UNCHANGED <<db, users, cases>>

\* CaseLibraryViewSet.view, the rest: case.view_count += 1 on the object
\* in memory, then case.save(), the UPDATE; the request answers 200 with
\* the count it wrote
ViewSave(w, pk) ==
  /\ workers[w].job = "view"
  /\ workers[w].at = "save"
  /\ cases' = [cases EXCEPT ![pk].view_count = workers[w].local + 1]
  /\ workers' = [workers EXCEPT ![w].at = "done", ![w].status = 200,
                                ![w].local = workers[w].local + 1]
  /\ UNCHANGED <<db, users>>

\* user u1 owns one analysis and its case-library entry, public or not;
\* MaxWorkers requests arrive, each a creation or a view call of a user
InitConcurrent ==
  /\ db = <<Row("u1", P1, Alice, TRUE)>>
  /\ users = [NoStats EXCEPT !["u1"].total_analyses = 1]
  /\ \E is_public \in BOOLEAN :
       cases = <<Case(1, Tags, Flu, Fever, is_public)>>
  /\ workers \in [1..MaxWorkers -> { Worker(j, u) : j \in Jobs, u \in UserIds }]
  /\ lastReq = NoLast
  /\ dash = NoDash
  /\ searched = NoSearch
  /\ IdleService

NextConcurrent ==
  \/ \E w \in DOMAIN workers :
       CreateSave(w) /\ UNCHANGED <<gwVars, viewVars, lastReq, dash, searched>>
  \/ \E w \in DOMAIN workers :
       CreateCount(w) /\ UNCHANGED <<gwVars, viewVars, lastReq, dash, searched>>
  \/ \E w \in DOMAIN workers :
       CreateWrite(w) /\ UNCHANGED <<gwVars, viewVars, lastReq, dash, searched>>
  \/ \E w \in DOMAIN workers :
       ViewGet(w, 1) /\ UNCHANGED <<gwVars, viewVars, lastReq, dash, searched>>
  \/ \E w \in DOMAIN workers :
       ViewSave(w, 1) /\ UNCHANGED <<gwVars, viewVars, lastReq, dash, searched>>

SpecConcurrent == InitConcurrent /\ [][NextConcurrent]_vars

(***************************************************************************)
(* The CaseLibraryViewSet: one request at a time (SpecLibrary)             *)
(***************************************************************************)
\* a run holds at most MaxCaseRequests requests to the case library
CanRequestCase == lastReq.n < MaxCaseRequests

\* the body of a create or update request of the case library (partial:
\* PATCH); tags, outcome and is_anonymous are left to their defaults
CasePayload(partial, analysis, final_diagnosis, is_public) ==
  [partial |-> partial, analysis |-> analysis,
   final_diagnosis |-> final_diagnosis, is_public |-> is_public]

\* the default of tags (list), as JSON text
NoTags == <<"[", "]">>

CaseCreatePayloads ==
  { CasePayload(FALSE, FieldNum(1), FieldStr(Flu), FieldBool(TRUE)),
    CasePayload(FALSE, FieldNum(1), FieldStr(Fever), FieldAbsent),
    CasePayload(FALSE, FieldNum(4), FieldStr(Fever), FieldAbsent),
    CasePayload(FALSE, FieldNum(2), FieldStr(Flu), FieldAbsent),
    CasePayload(FALSE, FieldAbsent, FieldStr(Flu), FieldAbsent),
    CasePayload(FALSE, FieldNum(1), FieldStr(<<" ", " ">>), FieldAbsent),
    CasePayload(FALSE, FieldNum(9), FieldStr(Flu), FieldAbsent) }

CaseUpdatePayloads ==
  { CasePayload(TRUE, FieldAbsent, FieldAbsent, FieldBool(TRUE)),
    CasePayload(TRUE, FieldAbsent, FieldAbsent, FieldBool(FALSE)),
    CasePayload(TRUE, FieldAbsent, FieldStr(Fever), FieldAbsent),
    CasePayload(FALSE, FieldNum(1), FieldStr(Fever), FieldAbsent),
    CasePayload(FALSE, FieldAbsent, FieldAbsent, FieldAbsent) }

\* the analysis field (a PrimaryKeyRelatedField over Analysis.objects.all()
\* with the UniqueValidator of the one-to-one relation): required, the id
\* of a record, of any user, that no other entry is attached to
CaseAnalysisInvalid(payload, instance) ==
  IF payload.analysis.k = "absent" THEN ~payload.partial
  ELSE \/ payload.analysis.k # "num"
       \/ payload.analysis.n \notin DOMAIN db
       \/ db[payload.analysis.n].deleted
       \/ \E i \in DOMAIN cases :
            /\ i # instance
            /\ ~cases[i].deleted
            /\ cases[i].analysis = payload.analysis.n

\* the final_diagnosis field (a CharField for the TextField): required and
\* not blank after trimming
CaseDiagnosisInvalid(payload) ==
  IF payload.final_diagnosis.k = "absent" THEN ~payload.partial
  ELSE \/ payload.final_diagnosis.k # "str"
       \/ Strip(payload.final_diagnosis.s) = << >>

\* serializer.is_valid() of CaseLibrarySerializer; instance is the id of
\* the entry that is updated, 0 for a creation
CasePayloadValid(payload, instance) ==
  ~CaseAnalysisInvalid(payload, instance) /\ ~CaseDiagnosisInvalid(payload)

\* ModelViewSet.create with CaseLibrarySerializer: no perform_create, the
\* entry is saved as validated
CaseCreate(u, payload) ==
  /\ CanRequestCase
  /\ UNCHANGED <<gwVars, viewVars, db, users, workers, dash, searched>>
  /\ IF ~CasePayloadValid(payload, 0)
     THEN /\ lastReq' = Outcome(u, "case_create", 400, << >>, {})
          /\ UNCHANGED cases
     ELSE LET table ==
                Append(cases,
                       Case(payload.analysis.n, NoTags,
                            Strip(payload.final_diagnosis.s), << >>,
                            payload.is_public.k = "bool"
                              /\ payload.is_public.n = 1))
          IN  /\ cases' = table
              /\ lastReq' = Outcome(u, "case_create", 201, <<Len(table)>>,
                                    {Len(table)})

\* ModelViewSet.list
CaseList(u) ==
  /\ CanRequestCase
  /\ UNCHANGED <<gwVars, viewVars, db, users, cases, workers, dash, searched>>
  /\ lastReq' = Outcome(u, "case_list", 200, CaseQueryset(u), {})

\* ModelViewSet.retrieve
CaseRetrieve(u, pk) ==
  /\ CanRequestCase
  /\ UNCHANGED <<gwVars, viewVars, db, users, cases, workers, dash, searched>>
  /\ lastReq' = IF CaseObject(u, pk) = 200
                THEN Outcome(u, "case_retrieve", 200, <<pk>>, {})
                ELSE Outcome(u, "case_retrieve", 404, << >>, {})

\* ModelViewSet.update and partial_update
CaseUpdate(u, pk, payload) ==
  /\ CanRequestCase
  /\ UNCHANGED <<gwVars, viewVars, db, users, workers, dash, searched>>
  /\ IF CaseObject(u, pk) # 200
     THEN /\ lastReq' = Outcome(u, "case_update", 404, << >>, {})
          /\ UNCHANGED cases
     ELSE IF ~CasePayloadValid(payload, pk)
     THEN /\ lastReq' = Outcome(u, "case_update", 400, << >>, {})
          /\ UNCHANGED cases
     ELSE /\ cases' = [cases EXCEPT ![pk] =
                         [@ EXCEPT
                            !.analysis =
                               IF payload.analysis.k = "absent" THEN @
                               ELSE payload.analysis.n,
                            !.final_diagnosis =
                               IF payload.final_diagnosis.k = "absent" THEN @
                               ELSE Strip(payload.final_diagnosis.s),
                            !.is_public =
                               IF payload.is_public.k = "absent" THEN @
                               ELSE payload.is_public.n = 1]]
          /\ lastReq' = Outcome(u, "case_update", 200, <<pk>>, {pk})

\* ModelViewSet.destroy
CaseDestroy(u, pk) ==
  /\ CanRequestCase
  /\ UNCHANGED <<gwVars, viewVars, db, users, workers, dash, searched>>
  /\ IF CaseObject(u, pk) # 200
     THEN /\ lastReq' = Outcome(u, "case_destroy", 404, << >>, {})
          /\ UNCHANGED cases
     ELSE /\ cases' = [cases EXCEPT ![pk] = DeletedCase(@)]
          /\ lastReq' = Outcome(u, "case_destroy", 204, << >>, {pk})

\* CaseLibraryViewSet.view, with no other request in between
CaseView(u, pk) ==
  /\ CanRequestCase
  /\ UNCHANGED <<gwVars, viewVars, db, users, workers, dash, searched>>
  /\ IF CaseObject(u, pk) # 200
     THEN /\ lastReq' = Outcome(u, "case_view", 404, << >>, {})
          /\ UNCHANGED cases
     ELSE /\ cases' = [cases EXCEPT ![pk].view_count = @ + 1]
          /\ lastReq' = Outcome(u, "case_view", 200, <<pk>>, {pk})

\* Q(tags__icontains=query) | Q(final_diagnosis__icontains=query) |
\* Q(outcome__icontains=query)
Matches(case, query) ==
  \/ Contains(Lower(case.tags), Lower(query))
  \/ Contains(Lower(case.final_diagnosis), Lower(query))
  \/ Contains(Lower(case.outcome), Lower(query))

\* request.query_params.get('q', ''), not stripped
SearchQuery_Raw(q) == IF q.k = "absent" THEN << >> ELSE q.s

\* request.query_params.get('q', '').strip()
SearchQuery(q) == IF q.k = "absent" THEN << >> ELSE Strip(q.s)

\* CaseLibraryViewSet.search: [] for an empty query and 400 for a query of
\* more than 200 characters, both before the queryset is built; else the
\* first 50 entries of the queryset that match
CaseSearch(u, q) ==
  /\ UNCHANGED <<gwVars, viewVars, db, users, cases, workers, dash>>
  /\ LET query == SearchQuery(q)
     IN  IF query = << >>
         THEN /\ lastReq' = Outcome(u, "case_search", 200, << >>, {})
              /\ searched' = [q |-> q, ran |-> FALSE]
         ELSE IF Len(query) > 200
         THEN /\ lastReq' = Outcome(u, "case_search", 400, << >>, {})
              /\ searched' = [q |-> q, ran |-> FALSE]
         ELSE /\ lastReq' =
                   Outcome(u, "case_search", 200,
                           Take(SelectSeq(CaseQueryset(u),
                                          LAMBDA i : Matches(cases[i], query)),
                                50),
                           {})
              /\ searched' = [q |-> q, ran |-> TRUE]

\* the query strings of the search requests of SpecLibrary
LibraryQueries ==
  { FieldAbsent, FieldStr(<<" ", "f", "L", "u", " ">>), FieldStr(Fever) }

\* four analyses (of u1, u2, u2, u1) and two entries of the case library,
\* both of u2: a public one and a private one
InitLibrary ==
  /\ db = <<Row("u1", P1, Alice, TRUE), Row("u2", P2, Bob, TRUE),
            Row("u2", P1, Bob, TRUE), Row("u1", P2, Alice, TRUE)>>
  /\ users = [u \in UserIds |-> [total_analyses |-> 2]]
  /\ cases = <<Case(2, Tags, Flu, << >>, TRUE),
               Case(3, NoTags, Fever, Fever, FALSE)>>
  /\ workers = << >>
  /\ lastReq = NoLast
  /\ dash = NoDash
  /\ searched = NoSearch
  /\ IdleService

\* a request of a user; the id of a request for one entry is the id of an
\* entry or the next id, which no entry has
NextLibrary ==
  \/ \E u \in UserIds, payload \in CaseCreatePayloads : CaseCreate(u, payload)
  \/ \E u \in UserIds : CaseList(u)
  \/ \E u \in UserIds, pk \in 1..(Len(cases) + 1) : CaseRetrieve(u, pk)
  \/ \E u \in UserIds, pk \in 1..(Len(cases) + 1),
        payload \in CaseUpdatePayloads : CaseUpdate(u, pk, payload)
  \/ \E u \in UserIds, pk \in 1..(Len(cases) + 1) : CaseDestroy(u, pk)
  \/ \E u \in UserIds, pk \in 1..(Len(cases) + 1) : CaseView(u, pk)
  \/ \E u \in UserIds, q \in LibraryQueries : CanRequestCase /\ CaseSearch(u, q)

SpecLibrary == InitLibrary /\ [][NextLibrary]_vars

(***************************************************************************)
(* One search request over a case library of any size (SpecSearch)         *)
(***************************************************************************)
\* number of entries of the largest case library
MaxCases == 52

\* the i-th analysis: the users own the records in turn
LibraryAnalysis(i) ==
  Row(IF i % 2 = 1 THEN "u1" ELSE "u2", P1, Alice, TRUE)

\* the i-th entry, attached to the i-th analysis: public or not after the
\* layout, its texts after its number
LibraryCase(i, layout) ==
  Case(i,
       IF i % 5 = 0 \/ layout = "flu" THEN Tags ELSE NoTags,
       IF i % 4 \in {0, 1} THEN Flu ELSE Fever,
       IF i % 2 = 0 THEN Fever ELSE << >>,
       CASE layout = "public" -> TRUE
         [] layout = "flu" -> TRUE
         [] layout = "private" -> FALSE
         [] OTHER -> i % 3 = 0)

Layouts == {"public", "flu", "private", "mixed"}

\* the q parameters: absent, empty, blank, words in either case and with
\* blanks around them, a JSON bracket, and texts of 200, 201 and (before
\* the trimming) 202 characters
SearchQueries ==
  { FieldAbsent, FieldStr(<< >>), FieldStr(<<" ", " ", " ">>),
    FieldStr(<<" ", "f", "L", "u", " ">>), FieldStr(Fever),
    FieldStr(<<"z", "z">>), FieldStr(<<"[">>),
    FieldStr(ContentText(200)), FieldStr(ContentText(201)),
    FieldStr(<<" ">> \o ContentText(200) \o <<" ">>),
    FieldStr(<<" ">> \o ContentText(201)) }

InitSearch ==
  /\ \E n \in 0..MaxCases, layout \in Layouts :
       /\ db = [i \in 1..n |-> LibraryAnalysis(i)]
       /\ cases = [i \in 1..n |-> LibraryCase(i, layout)]
  /\ users = NoStats
  /\ workers = << >>
  /\ lastReq = NoLast
  /\ dash = NoDash
  /\ searched = NoSearch
  /\ IdleService

NextSearch ==
  \E u \in UserIds, q \in SearchQueries : lastReq.n = 0 /\ CaseSearch(u, q)

SpecSearch == InitSearch /\ [][NextSearch]_vars

(***************************************************************************)
(* dashboard_stats_view (SpecDashboard)                                    *)
(***************************************************************************)
\* number of Analysis records of the largest table of the dashboard model
MaxRows == 7

\* a final report whose consensusDiagnosis lists mappings with these names
\* ("<absent>": a mapping without the key name)
FinalReport(names) == [k |-> "dict", names |-> names]

\* a final report whose consensusDiagnosis is not a list
ReportNoList == [k |-> "nolist", names |-> << >>]

\* the names the loop appends for one analysis: final_report is a dict,
\* consensusDiagnosis a list, and the entries that hold the key name
ReportNames(row) ==
  IF row.final_report.k = "dict"
  THEN SelectSeq(row.final_report.names, LAMBDA name : name # "<absent>")
  ELSE << >>

\* the names of the analyses ids, in the order of the loop
AllDiagnoses(ids) ==
  Flatten([j \in DOMAIN ids |-> ReportNames(db[ids[j]])])

\* Counter(names)[name]
CountOf(names, name) ==
  Cardinality({ j \in DOMAIN names : names[j] = name })

\* the position of the first occurrence of name
FirstAt(names, name) == CHOOSE j \in DOMAIN names :
  names[j] = name /\ \A h \in 1..(j - 1) : names[h] # name

\* the place of name in Counter(names).most_common(): the names with a
\* higher count come first, and of the names with the same count those
\* counted first
RankOf(names, name) ==
  1 + Cardinality(
        { other \in { names[j] : j \in DOMAIN names } :
            \/ CountOf(names, other) > CountOf(names, name)
            \/ /\ CountOf(names, other) = CountOf(names, name)
               /\ FirstAt(names, other) < FirstAt(names, name) })

\* [{'name': name, 'count': count} for name, count in
\*  Counter(names).most_common(5)]
CommonDiagnoses(names) ==
  LET distinct == { names[j] : j \in DOMAIN names }
      top == Min(5, Cardinality(distinct))
  IN  [r \in 1..top |->
         LET name == CHOOSE x \in distinct : RankOf(names, x) = r
         IN  [name |-> name, count |-> CountOf(names, name)]]

\* the try block of dashboard_stats_view: the statistics of user u
ComputeStats(u) ==
  LET analyses == Reverse(SelectIds(db, LAMBDA row : row.user = u))
      completed ==
        Take(SelectSeq(analyses, LAMBDA i : db[i].is_completed), 100)
      first == Take(completed, 5)
      recent == IF Len(first) < 5
                THEN Take(first \o Take(analyses, 5 - Len(first)), 5)
                ELSE first
  IN  [total |-> Len(analyses),
       recent |-> recent,
       common |-> CommonDiagnoses(AllDiagnoses(completed))]

\* dashboard_stats_view: the cached statistics when the cache holds them,
\* else they are computed and cached
DashboardStats(u) ==
  /\ dash' = IF dash.cache[u].set
             THEN [dash EXCEPT !.user = u, !.status = 200,
                               !.out = dash.cache[u].stats]
             ELSE LET stats == ComputeStats(u)
                  IN  [cache |-> [dash.cache EXCEPT
                                    ![u] = [set |-> TRUE, stats |-> stats]],
                       user |-> u, status |-> 200, out |-> stats]
  /\ UNCHANGED <<gwVars, viewVars, crudVars, cases, workers, searched>>

\* cache.set(cache_key, stats, 300): the entry of u expires
CacheExpire(u) ==
  /\ dash.cache[u].set
  /\ dash' = [dash EXCEPT !.cache[u] = [set |-> FALSE, stats |-> NoStatsOut]]
  /\ UNCHANGED <<gwVars, viewVars, crudVars, cases, workers, searched>>

\* who owns the i-th record
OwnerLayouts == {"u1", "turns"}

\* which records are completed
CompletedLayouts == {"all", "none", "odd", "oldest"}

\* what the final reports hold
ReportLayouts == {"names", "odd"}

\* the i-th record of a table
DashboardRow(i, owners, completed, reports) ==
  [Row(IF owners = "u1" \/ i % 2 = 1 THEN "u1" ELSE "u2", P1, Alice,
       CASE completed = "all" -> TRUE
         [] completed = "none" -> FALSE
         [] completed = "odd" -> i % 2 = 1
         [] OTHER -> i = 1)
   EXCEPT !.final_report =
     IF reports = "names"
     THEN CASE i % 3 = 0 -> FinalReport(<<"flu", "cold">>)
            [] i % 3 = 1 -> FinalReport(<<"flu">>)
            [] OTHER -> FinalReport(<<"gout", "cold", "flu">>)
     ELSE CASE i % 4 = 0 -> NoFinalReport
            [] i % 4 = 1 -> FinalReport(<<"<absent>", "asthma", "asthma">>)
            [] i % 4 = 2 -> ReportNoList
            [] OTHER -> FinalReport(<<"a", "b", "c", "d", "e", "f", "a">>)]

InitDashboard ==
  /\ \E n \in 0..MaxRows, owners \in OwnerLayouts,
        completed \in CompletedLayouts, reports \in ReportLayouts :
       db = [i \in 1..n |-> DashboardRow(i, owners, completed, reports)]
  /\ users = NoStats
  /\ cases = << >>
  /\ workers = << >>
  /\ lastReq = NoLast
  /\ dash = NoDash
  /\ searched = NoSearch
  /\ IdleService

NextDashboard ==
  \/ \E u \in UserIds : DashboardStats(u)
  \/ \E u \in UserIds : CacheExpire(u)

SpecDashboard == InitDashboard /\ [][NextDashboard]_vars

(***************************************************************************)
(* Properties of the gateway (SpecGateway)                                 *)
(***************************************************************************)
GwDone == gwResult.kind # "none"

\* the message of the provider's exception contains kw in some letter case
MsgHas(kw) == Contains(Lower(gwOutcome.chars), kw)

\* C1 as stated: every provider failure whose message contains "invalid" or
\* "malformed" ends in the bad-input condition (ValueError), also when the
\* message contains other keywords.
C1_InvalidAlwaysBadInput ==
  (GwDone /\ gwOutcome.kind = "raise"
     /\ (MsgHas(KwInvalid) \/ MsgHas(KwMalformed)))
  => gwResult.exc = "ValueError"

\* C1 amended: a provider failure whose message contains "invalid" or
\* "malformed" in any letter case, and neither "quota" nor "rate limit",
\* ends in the bad-input condition (ValueError).
C1_InvalidBadInputUnlessQuota ==
  (GwDone /\ gwOutcome.kind = "raise"
     /\ (MsgHas(KwInvalid) \/ MsgHas(KwMalformed))
     /\ ~MsgHas(KwQuota) /\ ~MsgHas(KwRateLimit))
  => gwResult = InvalidRequest

C1_Witness ==
  /\ gwOutcome = ProviderRaises(<<"I", "N", "V", "A", "L", "I", "D", "t", "i", "m", "e", "o", "u", "t">>)
  /\ gwResult = InvalidRequest

\* C2: every provider failure whose message contains "quota" or "rate limit"
\* in any letter case ends in the retryable-busy condition, the rate limit
\* exception, which is no ValueError.
C2_QuotaIsBusy ==
  (GwDone /\ gwOutcome.kind = "raise"
     /\ (MsgHas(KwQuota) \/ MsgHas(KwRateLimit)))
  => (gwResult = RateLimitExceeded /\ gwResult.exc # "ValueError")

C2_Witness ==
  /\ gwOutcome = ProviderRaises(<<"m", "a", "l", "f", "o", "r", "m", "e", "d", "R", "a", "t", "e", " ", "L", "i", "m", "i", "t">>)
  /\ gwResult = RateLimitExceeded

\* C3: a failure whose message contains none of the four keywords ends in
\* the generic service-unavailable condition, and every failure of the
\* gateway ends in exactly one of the three conditions.
C3_OtherIsUnavailable ==
  /\ (GwDone /\ gwOutcome.kind = "raise"
        /\ ~MsgHas(KwQuota) /\ ~MsgHas(KwRateLimit)
        /\ ~MsgHas(KwInvalid) /\ ~MsgHas(KwMalformed))
     => gwResult = Unavailable
  /\ (GwDone /\ gwOutcome.kind = "raise") => gwResult.kind = "raise"
  /\ (GwDone /\ gwResult.kind # "return")
     => gwResult \in {RateLimitExceeded, InvalidRequest, Unavailable}

C3_Witness ==
  /\ gwOutcome = ProviderRaises(<<"q", "u", "o", "t", "v", "a", "l", "i", "d">>)
  /\ gwResult = Unavailable

\* the provider's text is a body in an opening fence and a closing fence
IsFenced(parts) ==
  \E a \in Pads, b \in Pads, c \in Pads, d \in Pads :
    /\ parts.pre = a \o FenceOpen \o b
    /\ parts.post = c \o FenceClose \o d

\* C5: with a schema, a JSON payload wrapped in a leading and a trailing
\* fence (white space around them) gives the same parsed value as the
\* payload alone.
C5_FencedParsesAsBare ==
  (GwDone /\ gwSchema /\ gwOutcome.kind = "text" /\ IsFenced(gwParts)
     /\ JsonLoads(gwParts.body).ok)
  => /\ gwResult = Return(JsonLoads(gwParts.body).val)
     /\ gwResult = CallGemini(TRUE, ProviderAnswers(gwParts.body))

C5_Witness ==
  /\ gwSchema
  /\ gwParts = [pre |-> FenceOpen \o <<"\n">>, body |-> <<"[", "1", "]">>,
                post |-> <<"\n">> \o FenceClose]
  /\ gwResult = Return(JArr(<<JNum(1)>>))

(***************************************************************************)
(* Properties of the views (Spec)                                          *)
(***************************************************************************)
\* the value under key of the gateway's result, as a list
ProvidedList(key) ==
  IF HasKey(gwResult.val, key) /\ ObjGet(gwResult.val, key).t = "arr"
  THEN ObjGet(gwResult.val, key).items
  ELSE << >>

\* C4: with a schema, a provider text that is no JSON after the fences are
\* stripped ends the gateway call in the bad-input condition (ValueError),
\* never in another condition or the parser's own error, and every view
\* answers HTTP 400.
C4_BadJsonIsBadInput ==
  (pc = "done" /\ gwSchema /\ gwOutcome.kind = "text"
     /\ ~JsonLoads(CleanText(gwOutcome.chars)).ok)
  => /\ gwResult = InvalidRequest
     /\ response = ErrorResponse(400, InvalidInputMsg)

C4_Witness ==
  /\ pc = "done"
  /\ op = "final_report"
  /\ gwOutcome = ProviderAnswers(<<"[", Lit("q1"), ",", "]">>)
  /\ response.status = 400

\* C6: a successful clarifying-questions response holds at most 10
\* questions, the first 10 of the provider's questions in their order.
C6_AtMostTenQuestions ==
  (pc = "done" /\ op = "clarifying_questions" /\ response.status = 200)
  => LET qs == ObjGet(response.body, "questions").items
         provided == ProvidedList("questions")
     IN  /\ Len(qs) <= 10
         /\ Len(qs) = Min(10, Len(provided))
         /\ \A i \in 1..Len(qs) : qs[i] = provided[i]

C6_Witness ==
  /\ pc = "done"
  /\ op = "clarifying_questions"
  /\ response.status = 200
  /\ Len(ProvidedList("questions")) = MaxQuestions
  /\ Len(ObjGet(response.body, "questions").items) = 10
  /\ ProvidedList("questions")[1] = JStr("q6")

\* C7: in the clarifying-questions operation, parseable provider JSON that
\* is not list-shaped (the questions value is no list, or the top-level
\* value is no object holding one) is answered with success and an empty
\* questions list.
C7_NotListShapedGivesEmpty ==
  (pc = "done" /\ op = "clarifying_questions" /\ gwResult.kind = "return"
     /\ ~(HasKey(gwResult.val, "questions")
          /\ ObjGet(gwResult.val, "questions").t = "arr"))
  => response = OkResponse(JObj(<<"questions">>, <<JArr(<< >>)>>))

\* the specialty to model table of the interface section of the spec
TableModel(specialty) ==
  CASE specialty \in { "Cardiology", "Gastroenterology", "Nephrology",
                       "Geriatrics", "Internal Medicine", "Urology",
                       "Gynecology" } -> "Gemini"
    [] specialty \in { "Neurology", "Rheumatology", "Pediatrics",
                       "Psychiatry" } -> "Claude"
    [] specialty \in { "Radiology", "Pulmonology", "Emergency Medicine",
                       "Dermatology", "Orthopedics" } -> "GPT"
    [] specialty \in { "Oncology", "Infectious Disease", "Hematology" }
         -> "Llama"
    [] specialty = "Endocrinology" -> "Grok"
    [] OTHER -> "Gemini"

\* the model the table gives a recommendation
ExpectedModel(rec) ==
  IF HasKey(rec, "specialty") /\ ObjGet(rec, "specialty").t = "str"
  THEN TableModel(ObjGet(rec, "specialty").a)
  ELSE "Gemini"

\* the recommendations of the response
ResponseRecs == ObjGet(response.body, "recommendations").items

\* C8: every entry of the recommendations of a result of
\* recommend_specialists has a model field, the table's value for its
\* specialty or Gemini when the specialty is absent or not in the table;
\* a model the provider supplied is overwritten.
C8_EveryEntryHasTableModel ==
  (pc = "done" /\ op = "recommend_specialists" /\ response.status = 200
     /\ HasKey(response.body, "recommendations"))
  => \A i \in DOMAIN ResponseRecs :
       /\ HasKey(ResponseRecs[i], "model")
       /\ ObjGet(ResponseRecs[i], "model") = JStr(ExpectedModel(ResponseRecs[i]))

C8_Witness ==
  /\ pc = "done"
  /\ op = "recommend_specialists"
  /\ response.status = 200
  /\ ProvidedList("recommendations") =
       [RecList(0, 5) EXCEPT ![1] = RecWithModel("Astrology")]
  /\ ObjGet(ResponseRecs[1], "model") = JStr("Gemini")
  /\ ObjGet(ResponseRecs[2], "model") = JStr("Claude")

\* C9 as stated: a successful recommend-specialists response holds 5 to 6
\* recommendations, each with a specialty of the catalog of 20 names.
C9_FiveToSixFromCatalog ==
  (pc = "done" /\ op = "recommend_specialists" /\ response.status = 200)
  => /\ HasKey(response.body, "recommendations")
     /\ ObjGet(response.body, "recommendations").t = "arr"
     /\ Len(ResponseRecs) \in 5..6
     /\ \A i \in DOMAIN ResponseRecs :
          /\ HasKey(ResponseRecs[i], "specialty")
          /\ ObjGet(ResponseRecs[i], "specialty") \in
               { JStr(Specialties[k]) : k \in DOMAIN Specialties }

\* C9 amended: a successful recommend-specialists response holds as many
\* recommendations as the provider's answer, in the same order and with
\* the same specialty values; their number and their specialties are not
\* checked, so the response holds 5 to 6 recommendations of the catalog
\* exactly when the provider's answer does.
C9_SameRecommendationsAsProvider ==
  (pc = "done" /\ op = "recommend_specialists" /\ response.status = 200)
  => /\ gwResult.kind = "return"
     /\ response.body.keys = gwResult.val.keys
     /\ HasKey(response.body, "recommendations")
        => LET out  == ObjGet(response.body, "recommendations")
               prov == ObjGet(gwResult.val, "recommendations")
           IN  /\ out.t = prov.t
               /\ Len(out.items) = Len(prov.items)
               /\ \A i \in DOMAIN out.items :
                    /\ HasKey(out.items[i], "specialty")
                         = HasKey(prov.items[i], "specialty")
                    /\ SpecialtyName(out.items[i])
                         = SpecialtyName(prov.items[i])

C9_Witness ==
  /\ pc = "done"
  /\ op = "recommend_specialists"
  /\ response.status = 200
  /\ HasKey(response.body, "recommendations")
  /\ Len(ResponseRecs) = MaxRecs
  /\ Len(ProvidedList("recommendations")) = MaxRecs

\* C10: in each of the six operations a request whose language is none of
\* en, uz-L, uz-C, ru is handled as if the language were en: the language
\* causes no error and the provider is called.
C10_UnknownLanguageHandledAsEn ==
  (pc # "received"
     /\ request.language \notin valid_languages \cup {Absent}
     /\ (op \in PatientOps => request.patient_data = "dict")
     /\ (op \in ListOps => request.lists = "list"))
  => (calls = 1 /\ response.fields = {})

(***************************************************************************)
(* Properties of the views: validation, provider calls and failures (Spec) *)
(***************************************************************************)
\* the request lacks a required field of its serializer, or its
\* patient_data is no mapping
MalformedShape ==
  \/ op \in PatientOps /\ request.patient_data # "dict"
  \/ op \in ListOps /\ request.lists = Absent

\* C12: for every operation that takes patient data, a request with a
\* malformed payload shape (a required field missing, or patient_data that
\* is no mapping) is answered with HTTP 400 and no provider call is made
C12_MalformedShapeIsClientError ==
  (pc = "done" /\ op \in PatientOps /\ MalformedShape) =>
    (response.status = 400 /\ calls = 0)

\* C13: every request issues at most one provider call, and exactly one
\* when its input passes validation (a failed call is not retried)
C13_OneCallPerValidRequest ==
  /\ calls <= 1
  /\ pc = "done" => (calls = 1 <=> SerializerErrors(op, request) = {})

\* the failure class of a provider exception with message msg: busy (quota
\* or rate limit), bad input (invalid or malformed) or other
FailureClass(msg) ==
  IF Contains(Lower(msg), KwQuota) \/ Contains(Lower(msg), KwRateLimit)
  THEN "busy"
  ELSE IF Contains(Lower(msg), KwInvalid) \/ Contains(Lower(msg), KwMalformed)
       THEN "bad_input"
       ELSE "other"

\* the response of operation o when the provider call raises msg
RunWithFailure(o, msg) ==
  ViewResponse(o, Service(o, CallGemini(TRUE, ProviderRaises(msg))))

\* C14: the response after a provider failure depends on the provider's
\* message only through its failure class: a run of the same request whose
\* provider message differs but is of the same class gives the same status
\* and body
C14_SameClassSameResponse ==
  (pc = "done" /\ gwOutcome.kind = "raise") =>
    \A m \in ViewMessages :
      FailureClass(m) = FailureClass(gwOutcome.chars) =>
        RunWithFailure(op, m) = response

\* a provider failure of the bad-input class was answered, and another
\* message of that class exists
C14_Witness ==
  /\ pc = "done"
  /\ gwOutcome = ProviderRaises(<<"I", "N", "V", "A", "L", "I", "D">>)
  /\ FailureClass(KwMalformed) = FailureClass(gwOutcome.chars)
  /\ KwMalformed \in ViewMessages
  /\ response.status = 400

\* the operations whose service method hands the parsed value on
PassThroughOps ==
  { "final_report", "initial_diagnoses", "drug_interactions", "cme_topics" }

\* the key of the provider's object an operation reads and answers under
ListKey(o) ==
  CASE o = "initial_diagnoses" -> "diagnoses"
    [] o = "drug_interactions" -> "interactions"
    [] o = "cme_topics" -> "topics"

\* the body the caller is to get when the provider's text parsed to v
PassedThrough(o, v) ==
  IF o = "final_report" THEN v
  ELSE JObj(<<ListKey(o)>>,
            << IF \E i \in DOMAIN v.keys : v.keys[i] = ListKey(o)
               THEN v.items[CHOOSE i \in DOMAIN v.keys : v.keys[i] = ListKey(o)]
               ELSE JArr(<< >>) >>)

\* C17: final-report answers the provider's parsed value as it is, and
\* initial-diagnoses, drug-interactions and cme-topics answer the value
\* under their key of the provider's parsed object, or an empty list when
\* the key is absent: nothing is added, removed or checked
C17_ParsedValuePassedThrough ==
  (pc = "done" /\ op \in PassThroughOps /\ gwOutcome.kind = "text") =>
    LET parsed == JsonLoads(CleanText(gwOutcome.chars))
    IN  /\ (parsed.ok /\ (op = "final_report" \/ parsed.val.t = "obj")) =>
             response = OkResponse(PassedThrough(op, parsed.val))
        /\ response.status = 200 =>
             (parsed.ok /\ response.body = PassedThrough(op, parsed.val))

\* initial-diagnoses answered an empty list for an object without diagnoses
C17_Witness ==
  /\ pc = "done"
  /\ op = "initial_diagnoses"
  /\ gwOutcome =
       ProviderAnswers(JsonDumps(JObj(<<"interactions">>,
                                      <<JArr(<<JStr("q2")>>)>>)))
  /\ response = OkResponse(JObj(<<"diagnoses">>, <<JArr(<< >>)>>))

\* the request passed its serializer and a failure was raised afterwards:
\* while the prompt was built (no call was made), in the provider call or
\* in the service method after it
FailedAfterValidation ==
  /\ pc = "done"
  /\ SerializerErrors(op, request) = {}
  /\ \/ calls = 0
     \/ Service(op, gwResult).kind = "raise"

\* the type of that failure
FailureType ==
  IF calls = 0 THEN "AttributeError" ELSE Service(op, gwResult).exc

\* C18: a failure raised after input validation is answered 400 with the
\* fixed invalid-input message when it is a ValueError and 500 with the
\* endpoint's fixed try-again message otherwise; a finished request always
\* has a response, and a 2xx response only when nothing failed
C18_FailuresMapTo400Or500 ==
  /\ pc = "done" => response.status \in {200, 400, 500}
  /\ FailedAfterValidation =>
       /\ response.fields = {} /\ response.body = JNull
       /\ IF FailureType = "ValueError"
          THEN /\ response.status = 400
               /\ response.error =
                    "Invalid input data. Please check your request."
          ELSE /\ response.status = 500
               /\ response.error =
                    IF op = "clarifying_questions"
                    THEN "Failed to generate clarifying questions. Please try again later."
                    ELSE "Service temporarily unavailable. Please try again later."

\* the provider call of cme-topics ended in the bad-input condition
C18_Witness ==
  /\ FailedAfterValidation
  /\ op = "cme_topics"
  /\ calls = 1
  /\ gwResult.exc = "ValueError"
  /\ response.status = 400

(***************************************************************************)
(* Properties of the prompts (SpecPrompt)                                  *)
(***************************************************************************)
\* C11: in each of the six operations the target-language label of the
\* prompt is English for en, Uzbek (Latin script) for uz-L, Uzbek (Cyrillic
\* script) for uz-C, Russian for ru and English for every other language
\* value
C11_LabelFollowsFixedMap ==
  pc = "built" =>
    /\ op \in Ops
    /\ prompt.target_lang =
         CASE request.language = "en" -> "English"
           [] request.language = "uz-L" -> "Uzbek (Latin script)"
           [] request.language = "uz-C" -> "Uzbek (Cyrillic script)"
           [] request.language = "ru" -> "Russian"
           [] OTHER -> "English"

\* a prompt of suggest_cme_topics was built for a language outside the map
C11_Witness ==
  /\ pc = "built"
  /\ op = "cme_topics"
  /\ request.language = "fr"
  /\ prompt.target_lang = "English"

\* the number of lines of a text
LineCount(text) ==
  IF text = << >> THEN 0
  ELSE 1 + Cardinality({ j \in DOMAIN text : text[j] = "\n" })

\* the debate history of the final-report call and the turns that count
DebateHistory == request.items

SummaryTurnCount ==
  IF Len(DebateHistory) < 10 THEN Len(DebateHistory) ELSE 10

SummaryTurn(i) == DebateHistory[Len(DebateHistory) - SummaryTurnCount + i]

Formattable(turn) ==
  turn.t = "dict" /\ turn.content.k \in {"absent", "str", "list"}

\* the item of a formattable turn: the author (Unknown when absent), a
\* colon, at most the first 200 characters of the content, three dots
SummaryItem(turn) ==
  (CASE turn.author.k = "absent" -> <<"U", "n", "k", "n", "o", "w", "n">>
     [] turn.author.k = "str" -> turn.author.s
     [] turn.author.k = "num" -> DigitsOf(turn.author.n)
     [] turn.author.k = "null" -> <<"N", "o", "n", "e">>)
  \o <<":", " ">>
  \o (CASE turn.content.k = "absent" -> << >>
        [] turn.content.k = "list" -> <<"[", "]">>
        [] turn.content.k = "str" ->
             [j \in 1..(IF Len(turn.content.s) < 200
                        THEN Len(turn.content.s) ELSE 200) |->
                turn.content.s[j]])
  \o <<".", ".", ".">>

Analyses == request.items

TenMostRecent ==
  { i \in DOMAIN Analyses :
      Cardinality({ j \in DOMAIN Analyses :
                     Analyses[j].created_at > Analyses[i].created_at }) < 10 }

\* the diagnosis names of the final report of an entry
NamesOf(analysis) ==
  IF analysis.t = "dict" /\ analysis.report.k = "dict"
     /\ analysis.report.cd.k = "list"
  THEN { IF dx.name.k = "absent" THEN << >> ELSE dx.name.s :
           dx \in { analysis.report.cd.items[i] :
                      i \in DOMAIN analysis.report.cd.items } }
  ELSE {}

\* the entry is no mapping or lacks a final report
Skipped(analysis) == analysis.t # "dict" \/ analysis.report.k = "absent"

\* C16: the diagnosis names of the prompt of suggest_cme_topics come only
\* from the ten most recent entries of the analyses list, none occurs
\* twice and there are at most 20; a list whose entries are no mappings or
\* lack a final report raises no error
C16_NamesFromTenMostRecent ==
  /\ (pc = "built" /\ op = "cme_topics") =>
       /\ \A name \in DOMAIN prompt.diagnoses_str :
            /\ \E i \in TenMostRecent : name \in NamesOf(Analyses[i])
            /\ prompt.diagnoses_str[name] = 1
       /\ Cardinality(DOMAIN prompt.diagnoses_str) <= 20
  /\ (pc = "raised" /\ op = "cme_topics") =>
       \E i \in DOMAIN Analyses : ~Skipped(Analyses[i])

(***************************************************************************)
(* Properties of the AnalysisViewSet (SpecAnalyses)                        *)
(***************************************************************************)
\* the ids of the records the last request returned or modified
Touched ==
  { lastReq.returned[i] : i \in DOMAIN lastReq.returned }
  \cup lastReq.modified

\* C19: every Analysis record a request of the AnalysisViewSet returned or
\* modified (list, retrieve, update, destroy, complete, longitudinal,
\* recent, with any query parameters) is owned by the user who made the
\* request
C19_OnlyOwnRecords ==
  \A id \in Touched : id \in DOMAIN db /\ db[id].user = lastReq.user

\* longitudinal returned the two records of the user for a patient who
\* also has a record of another user
C19_Witness ==
  /\ lastReq.action = "longitudinal"
  /\ lastReq.status = 200
  /\ Len(lastReq.returned) = 2
  /\ \E id \in DOMAIN db :
       /\ ~db[id].deleted
       /\ db[id].user # lastReq.user
       /\ db[id].patient_id = db[lastReq.returned[1]].patient_id

\* C20: a record created through the API is owned by the requesting user
\* and is completed right after its creation, whatever user and
\* is_completed the payload named
C20_CreatedIsOwnAndCompleted ==
  (lastReq.action = "create" /\ lastReq.status = 201) =>
    /\ lastReq.returned = <<Len(db)>>
    /\ db[Len(db)].user = lastReq.user
    /\ db[Len(db)].is_completed
    /\ ~db[Len(db)].deleted

\* u1 created a record with the payload that names user u2 and
\* is_completed false (the only one for patient p2)
C20_Witness ==
  /\ lastReq.action = "create"
  /\ lastReq.status = 201
  /\ lastReq.user = "u1"
  /\ db[Len(db)].patient_id = P2
  /\ db[Len(db)].user = "u1"
  /\ db[Len(db)].is_completed

\* the number of Analysis records user u owns
OwnedCount(u) == Len(SelectIds(db, LAMBDA row : row.user = u))

\* C21: after any sequence of creations and deletions, one at a time, the
\* total_analyses of each user is the number of Analysis records the user
\* owns
C21_TotalIsOwnedCount ==
  \A u \in UserIds : users[u].total_analyses = OwnedCount(u)

\* every request has answered
AllDone == \A w \in DOMAIN workers : workers[w].at = "done"

\* C22: when concurrent creations of a user have all finished, the
\* total_analyses of each user is the number of Analysis records the user
\* owns, under every interleaving of their statements
C22_ConcurrentTotalIsOwnedCount ==
  AllDone => \A u \in UserIds : users[u].total_analyses = OwnedCount(u)

\* the number of view calls on the case that have completed with 200
CompletedViews ==
  Cardinality({ w \in DOMAIN workers :
                  /\ workers[w].job = "view"
                  /\ workers[w].at = "done"
                  /\ workers[w].status = 200 })

\* C23: the stored view_count of the case is its initial value (0) plus the
\* number of completed view calls
C23_ViewCountIsCompletedViews ==
  Len(cases) > 0 => cases[1].view_count = CompletedViews

\* the user that owns the analysis entry i is attached to
CaseOwner(i) == db[cases[i].analysis].user

\* C24: every entry list, retrieve, search or view returned to a user is
\* public or attached to an analysis the user owns
C24_ReturnedIsPublicOrOwn ==
  lastReq.action \in {"case_list", "case_retrieve", "case_search", "case_view"}
    => \A j \in DOMAIN lastReq.returned :
         LET i == lastReq.returned[j]
         IN  /\ i \in DOMAIN cases
             /\ ~cases[i].deleted
             /\ cases[i].is_public \/ CaseOwner(i) = lastReq.user

\* a list returned a public entry of the other user; the private entry of
\* that user exists and is not in the list
C24_Witness ==
  /\ lastReq.action = "case_list"
  /\ \E j \in DOMAIN lastReq.returned :
       /\ CaseOwner(lastReq.returned[j]) # lastReq.user
       /\ cases[lastReq.returned[j]].is_public
  /\ \E i \in DOMAIN cases :
       /\ ~cases[i].deleted
       /\ ~cases[i].is_public
       /\ CaseOwner(i) # lastReq.user
       /\ \A j \in DOMAIN lastReq.returned : lastReq.returned[j] # i

\* C25: a create, update or delete of a user changes, removes or adds only
\* entries attached to analyses of that user
C25_OnlyOwnEntriesChange ==
  [][lastReq'.action \in {"case_create", "case_update", "case_destroy"} =>
       \A i \in DOMAIN cases' :
         (i \notin DOMAIN cases \/ cases'[i] # cases[i]) =>
           /\ db[cases'[i].analysis].user = lastReq'.user
           /\ i \in DOMAIN cases => CaseOwner(i) = lastReq'.user]_vars

\* the trimmed q parameter of the last search
LastQuery == IF searched.q.k = "absent" THEN << >> ELSE Strip(searched.q.s)

\* the text t holds the text of the last search, in any case
Icontains(t) == Contains(Lower(t), Lower(LastQuery))

\* C26: search returns an empty list without querying when the trimmed
\* query is empty and 400 without querying when it has more than 200
\* characters; else at most 50 entries, each visible to the requester and
\* matching the query in tags, final_diagnosis or outcome
C26_SearchValidatesAndLimits ==
  lastReq.action = "case_search" =>
    IF LastQuery = << >>
    THEN lastReq.status = 200 /\ lastReq.returned = << >> /\ ~searched.ran
    ELSE IF Len(LastQuery) > 200
    THEN lastReq.status = 400 /\ lastReq.returned = << >> /\ ~searched.ran
    ELSE /\ lastReq.status = 200
         /\ searched.ran
         /\ Len(lastReq.returned) <= 50
         /\ \A j \in DOMAIN lastReq.returned :
              LET i == lastReq.returned[j]
              IN  /\ ~cases[i].deleted
                  /\ cases[i].is_public \/ CaseOwner(i) = lastReq.user
                  /\ \/ Icontains(cases[i].tags)
                     \/ Icontains(cases[i].final_diagnosis)
                     \/ Icontains(cases[i].outcome)

\* more than 50 entries match and 50 are returned
C26_Witness ==
  /\ lastReq.action = "case_search"
  /\ Len(lastReq.returned) = 50
  /\ Len(cases) > 50
  /\ \A i \in DOMAIN cases : cases[i].is_public /\ Icontains(cases[i].tags)

\* C27: recent_analyses holds at most 5 analyses, all of the user and none
\* twice, and common_diagnoses holds at most 5 entries with counts that
\* never rise
C27_RecentAndCommonAreBounded ==
  dash.status = 200 =>
    LET recent == dash.out.recent
        common == dash.out.common
    IN  /\ Len(recent) <= 5
        /\ \A j \in DOMAIN recent : db[recent[j]].user = dash.user
        /\ \A j, h \in DOMAIN recent : j # h => recent[j] # recent[h]
        /\ Len(common) <= 5
        /\ \A j \in 1..(Len(common) - 1) :
             common[j].count >= common[j + 1].count

====
